---- MODULE Spec2Model ----
(***************************************************************************)
(* ZenGolf: the session state machine, the swing detector and the shot     *)
(* engine of src/App.tsx (the component of lines 403-941), driven by the   *)
(* motion frames that src/services/joyconService.ts delivers.              *)
(*                                                                         *)
(* Numbers.  The program computes in floating point; the model computes in *)
(* fixed point with three decimals: a length, a speed, an angular velocity *)
(* or a ratio r is the integer 1000 * r (Milli), products are truncated    *)
(* towards zero.  The power meter (0..100 in the program) is kept in       *)
(* MeterSteps steps.                                                       *)
(*                                                                         *)
(* Scheduling.  JavaScript runs one callback at a time, so one callback is *)
(* one step.  A callback reads the React state of the latest render; the   *)
(* capture timer is the exception the code builds in: the callback given   *)
(* to setTimeout closes over the finishSwing of the render in which the    *)
(* arming frame was processed, so it reads the session state of that       *)
(* render (a pending timer carries it as `seen`).                          *)
(*                                                                         *)
(* Time.  `now` is the clock in milliseconds measured from the moment the  *)
(* oldest pending capture timer was scheduled; it stands still while no    *)
(* timer is pending, it advances from one deadline to the next, and it     *)
(* does not pass the deadline of a pending timer before that timer's       *)
(* callback has run.  Frames are processed before a deadline is reached.   *)
(***************************************************************************)
EXTENDS Integers, Sequences, FiniteSets, Bags, TLC

VARIABLES
  gameState,        \* useState<GameState>                       App.tsx:420
  inputMode,        \* useState<InputMode>                       App.tsx:421
  ballPos,          \* useState<Vector3>                         App.tsx:422
  currentClubIndex, \* useState(0)                               App.tsx:423
  powerMeter,       \* useState(0), percent                      App.tsx:426
  isAddressMode,    \* useState(false)                           App.tsx:427
  shotResult,       \* useState<ShotResult | null>               App.tsx:429
  commentary,       \* useState<string>("")                      App.tsx:430
  swingData,        \* useState<{time, power}[]>                 App.tsx:431
  ballVel,          \* useRef<Vector3>                           App.tsx:439
  swingPeakPower,   \* useRef(0)                                 App.tsx:440
  isSwinging,       \* useRef(false)                             App.tsx:441
  swingTimer,       \* useRef<timeout handle | null>             App.tsx:442
  timers,           \* the browser's pending setTimeout callbacks
  now,              \* the clock, ms
  replies,          \* getCaddieCommentary promises not yet settled
  lastEvent,        \* history: the callback that ran last and what it saw
  device,             \* HIDDevice | null, by product id    joyconService.ts:224
  onDataCallback,     \* the subscriber, or NoCallback      joyconService.ts:225
  isConnected,        \*                                    joyconService.ts:226
  globalPacketNumber, \*                                    joyconService.ts:227
  listening,          \* the inputreport listener is attached
  connecting,         \* where a running connect() stands
  handshakes,         \* the initializeDevice calls in progress
  lastSent,           \* history: the output frame sent last
  lastReport,         \* history: the input report parsed last
  delivered,          \* history: what that report's parse handed to the subscriber
  receiver,           \* history: the callback that parse called
  subscribed          \* history: the last two callbacks given to subscribe

vars == << gameState, inputMode, ballPos, currentClubIndex, powerMeter,
           isAddressMode, shotResult, commentary, swingData, ballVel,
           swingPeakPower, isSwinging, swingTimer, timers, now, replies,
           lastEvent, device, onDataCallback, isConnected, globalPacketNumber,
           listening, connecting, handshakes, lastSent, lastReport, delivered,
           receiver, subscribed >>

-----------------------------------------------------------------------------
(* Bounds of the model *)

\* frames processed inside one capture window, the arming frame included
MaxWindowFrames == 2
\* commentary requests that can be outstanding at once
MaxReplies == 1
\* frames the device sends within one capture window of a long swing
MaxBufferFrames == 43
\* the power meter is kept in steps of 1/MeterSteps of the full scale
MeterSteps == 20

-----------------------------------------------------------------------------
(* Fixed-point helpers *)

Milli == 1000

Abs(n) == IF n < 0 THEN -n ELSE n

Min(a, b) == IF a < b THEN a ELSE b

\* a * b / d, truncated towards zero
MulDiv(a, b, d) ==
  IF a * b >= 0 THEN (a * b) \div d ELSE -((-(a * b)) \div d)

RECURSIVE SqrtIter(_, _, _)
SqrtIter(n, lo, hi) ==
  IF lo >= hi THEN lo
  ELSE LET mid == (lo + hi + 1) \div 2
       IN  IF mid * mid <= n THEN SqrtIter(n, mid, hi) ELSE SqrtIter(n, lo, mid - 1)

\* Math.sqrt on a non-negative integer, rounded down
Sqrt(n) == IF n = 0 THEN 0 ELSE SqrtIter(n, 0, 46340)

-----------------------------------------------------------------------------
(* Constants of src/constants.ts *)

HOLE_DISTANCE == 300
HOLE_POS_3D == [x |-> 0, y |-> 0, z |-> HOLE_DISTANCE * Milli]

\* maxDist in metres; sinLoft and cosLoft are Math.sin(loft), Math.cos(loft)
\* of the table's loft in Milli; difficulty in Milli
CLUBS == <<
  [name |-> "Driver", maxDist |-> 280, sinLoft |-> 199, cosLoft |-> 980, difficulty |-> 1000],
  [name |-> "Iron 7", maxDist |-> 160, sinLoft |-> 389, cosLoft |-> 921, difficulty |-> 700],
  [name |-> "Wedge",  maxDist |-> 90,  sinLoft |-> 644, cosLoft |-> 765, difficulty |-> 400],
  [name |-> "Putter", maxDist |-> 30,  sinLoft |-> 0,   cosLoft |-> 1000, difficulty |-> 100] >>

GRAVITY == 9800
MAX_POWER_GYRO == 18000
SWING_TRIGGER_THRESHOLD == 3000

\* the delay given to setTimeout, ms
CaptureWindowMs == 400
\* prev.slice(-40)
SwingDataKeep == 40

Origin == [x |-> 0, y |-> 0, z |-> 0]

GameStates == {"Intro", "Idle", "Address", "Swinging", "BallFlying", "Result"}

NoTimer == 0
NoResult == [none |-> TRUE]

-----------------------------------------------------------------------------
(* Inputs *)

\* gyro vectors (rad/s, Milli) of magnitude 0, 3.0 (the threshold itself)
\* and 5.0
GyroVectors == { [x |-> 0, y |-> 0, z |-> 0],
                 [x |-> 3000, y |-> 0, z |-> 0],
                 [x |-> 0, y |-> 3000, z |-> -4000] }

\* the part of a JoyConData that processJoyConData reads for the game
Frames == [ b : BOOLEAN, y : BOOLEAN, zr : BOOLEAN, zl : BOOLEAN, gyro : GyroVectors ]

\* Math.random() in executeShot, Milli
RandomDraws == {0, 999}

\* strings getCaddieCommentary resolves to: the reply without an API key
\* and the reply for an empty response
CommentaryTexts == { "Nice shot! (AI Key missing)", "Interesting shot!" }

-----------------------------------------------------------------------------
(* Pure parts of processJoyConData *)

\* faulty variant: only y resets
HoldingReset_OnlyY(data) == data.y

\* const holdingReset = data.buttons.b || data.buttons.y
HoldingReset(data) == data.b \/ data.y

\* faulty variant: the trigger is b or zl
HoldingTrigger_BOrZl(data) == data.b \/ data.zl

\* const holdingTrigger = data.buttons.zr || data.buttons.zl
HoldingTrigger(data) == data.zr \/ data.zl

\* Math.sqrt(gx*gx + gy*gy + gz*gz)
GyroMag(data) ==
  Sqrt(data.gyro.x * data.gyro.x + data.gyro.y * data.gyro.y + data.gyro.z * data.gyro.z)

\* Math.min((gyroMag / MAX_POWER_GYRO) * 100, 100), in meter steps
InstantPower(mag) == Min((mag * MeterSteps) \div MAX_POWER_GYRO, MeterSteps)

\* prev * 0.8 + instantPower * 0.2
SmoothPower(prev, instant) == (prev * 8 + instant * 2) \div 10

\* faulty variant: the filter lets the frames of a flight through
Playable_InFlight(gs) == gs \in {"Idle", "Address", "Swinging", "BallFlying"}

\* the playable-state filter: frames pass it in these states only
Playable(gs) == gs \in {"Idle", "Address", "Swinging"}

\* faulty variant: the toggle never goes back to Idle
AddressToggle_NoRelease(data, gs, mode) ==
  IF gs \in {"Idle", "Address"} /\ HoldingTrigger(data) /\ ~mode
  THEN << TRUE, "Address" >>
  ELSE << mode, gs >>

\* the address toggle: the pair <<isAddressMode, gameState>> after step 3
AddressToggle(data, gs, mode) ==
  IF gs \in {"Idle", "Address"}
  THEN IF HoldingTrigger(data) /\ ~mode THEN << TRUE, "Address" >>
       ELSE IF ~HoldingTrigger(data) /\ mode THEN << FALSE, "Idle" >>
       ELSE << mode, gs >>
  ELSE << mode, gs >>

\* faulty variant: the armed flag is not consulted
SwingStart_IgnoreArmed(data, armed) == GyroMag(data) > SWING_TRIGGER_THRESHOLD

\* if (!isSwinging.current && gyroMag > SWING_TRIGGER_THRESHOLD)
SwingStart(data, armed) == ~armed /\ GyroMag(data) > SWING_TRIGGER_THRESHOLD

\* faulty variant: every swing start enters Swinging
SwingState_AnyStart(start, held, toggledState) ==
  IF start THEN "Swinging" ELSE toggledState

\* if (holdingTrigger) setGameState(GameState.SWINGING): the gameState a
\* frame leaves, given what the address toggle set
SwingState(start, held, toggledState) ==
  IF start /\ held THEN "Swinging" ELSE toggledState

\* faulty variant: a peak that was reset to 0 is not raised, so the
\* magnitude of the arming frame is not counted
TrackPeak_NotFromZero(peak, mag) == IF peak > 0 /\ mag > peak THEN mag ELSE peak

\* faulty variant: the peak follows the latest frame
TrackPeak_Latest(peak, mag) == mag

\* if (gyroMag > swingPeakPower.current) swingPeakPower.current = gyroMag
TrackPeak(peak, mag) == IF mag > peak THEN mag ELSE peak

\* faulty variant: the buffer is never cut
AppendSample_KeepsAll(buf, sample) == Append(buf, sample)

\* [...prev.slice(-40), sample]
AppendSample(buf, sample) ==
  LET n == Len(buf)
      kept == IF n <= SwingDataKeep THEN buf
              ELSE SubSeq(buf, n - SwingDataKeep + 1, n)
  IN  Append(kept, sample)

-----------------------------------------------------------------------------
(* Timers of the browser *)

\* faulty variant: clearTimeout cancels nothing
ClearTimeout_Nothing(ts, handle) == ts

\* clearTimeout(handle): a handle that is not pending is ignored
ClearTimeout(ts, handle) == { t \in ts : t.id # handle }

UsedIds(ts) == { t.id : t \in ts }

\* the handle setTimeout returns: the least one not pending
FreshId(ts) == CHOOSE i \in 1..(Cardinality(ts) + 1) :
                 /\ i \notin UsedIds(ts)
                 /\ \A j \in 1..(i - 1) : j \in UsedIds(ts)

\* faulty variant: the callback does not carry the trigger state of the
\* arming frame
ScheduleCapture_AlwaysHeld(ts, handle, held, seen, clock) ==
  LET cleared == IF handle # NoTimer THEN ClearTimeout(ts, handle) ELSE ts
  IN  cleared \cup { [id |-> FreshId(cleared), held |-> TRUE, seen |-> seen,
                      deadline |-> clock + CaptureWindowMs] }

\* if (swingTimer.current) clearTimeout(swingTimer.current);
\* swingTimer.current = setTimeout(() => finishSwing(holdingTrigger), 400)
\* `seen` is the gameState of the render whose finishSwing the callback holds
ScheduleCapture(ts, handle, held, seen, clock) ==
  LET cleared == IF handle # NoTimer THEN ClearTimeout(ts, handle) ELSE ts
  IN  cleared \cup { [id |-> FreshId(cleared), held |-> held, seen |-> seen,
                      deadline |-> clock + CaptureWindowMs] }

-----------------------------------------------------------------------------
(* Pure parts of finishSwing and executeShot *)

\* faulty variant: the ratio is not capped
PowerRatio_Uncapped(peak) == MulDiv(peak, Milli, MAX_POWER_GYRO)

\* Math.min(swingPeakPower.current / MAX_POWER_GYRO, 1.1), Milli
PowerRatio(peak) == Min(MulDiv(peak, Milli, MAX_POWER_GYRO), 1100)

\* faulty variant: the trigger flag is not consulted
IsRealShot_AnyTrigger(wasHoldingTrigger, powerRatio) == powerRatio > 100

\* if (wasHoldingTrigger && powerRatio > 0.1)
IsRealShot(wasHoldingTrigger, powerRatio) == wasHoldingTrigger /\ powerRatio > 100

\* Math.sin and Math.cos of a small angle (|a| < 0.06 rad), Milli
SinSmall(a) == a - MulDiv(a * a, a, 6 * Milli * Milli)
CosSmall(a) == Milli - MulDiv(a, a, 2 * Milli)

\* (Math.random() - 0.5) * 0.1 * (power * club.difficulty), Milli radians
AccuracyNoise(rnd, power, club) ==
  MulDiv(MulDiv(rnd - 500, 100, Milli), MulDiv(power, club.difficulty, Milli), Milli)

\* club.maxDist * 0.25 * power, Milli
LaunchSpeed(power, club) == MulDiv(club.maxDist, power, 4)

\* the ballVel.current that executeShot sets
LaunchVelocity(power, club, rnd) ==
  LET speed == LaunchSpeed(power, club)
      noise == AccuracyNoise(rnd, power, club)
  IN  [ x |-> MulDiv(SinSmall(noise), speed, Milli),
        y |-> MulDiv(MulDiv(club.sinLoft, speed, Milli), 1500, Milli),
        z |-> MulDiv(MulDiv(club.cosLoft, speed, Milli), CosSmall(noise), Milli) ]

-----------------------------------------------------------------------------
(* Pure parts of updatePhysics and endShot *)

\* faulty variant: a vertical speed of exactly 0.5 bounces
PhysicsStep_BounceAtBoundary(pos, vel) ==
  LET ny == pos.y + vel.y
      nx == pos.x + vel.x
      nz == pos.z + vel.z
  IN  IF ny <= 0
      THEN IF Abs(vel.y) >= 500
           THEN [ pos |-> [x |-> nx, y |-> 0, z |-> nz],
                  vel |-> [x |-> MulDiv(vel.x, 700, Milli),
                           y |-> MulDiv(vel.y, -500, Milli),
                           z |-> MulDiv(vel.z, 700, Milli)] ]
           ELSE [ pos |-> [x |-> nx, y |-> 0, z |-> nz],
                  vel |-> [x |-> MulDiv(vel.x, 950, Milli),
                           y |-> 0,
                           z |-> MulDiv(vel.z, 950, Milli)] ]
      ELSE [ pos |-> [x |-> nx, y |-> ny, z |-> nz],
             vel |-> [x |-> MulDiv(vel.x, 995, Milli),
                      y |-> vel.y - MulDiv(GRAVITY, 16, Milli),
                      z |-> MulDiv(vel.z, 995, Milli)] ]

\* faulty variant: the floor collision does not clamp the height
PhysicsStep_NoClamp(pos, vel) ==
  LET ny == pos.y + vel.y
      nx == pos.x + vel.x
      nz == pos.z + vel.z
  IN  IF ny <= 0
      THEN IF Abs(vel.y) > 500
           THEN [ pos |-> [x |-> nx, y |-> ny, z |-> nz],
                  vel |-> [x |-> MulDiv(vel.x, 700, Milli),
                           y |-> MulDiv(vel.y, -500, Milli),
                           z |-> MulDiv(vel.z, 700, Milli)] ]
           ELSE [ pos |-> [x |-> nx, y |-> ny, z |-> nz],
                  vel |-> [x |-> MulDiv(vel.x, 950, Milli),
                           y |-> 0,
                           z |-> MulDiv(vel.z, 950, Milli)] ]
      ELSE [ pos |-> [x |-> nx, y |-> ny, z |-> nz],
             vel |-> [x |-> MulDiv(vel.x, 995, Milli),
                      y |-> vel.y - MulDiv(GRAVITY, 16, Milli),
                      z |-> MulDiv(vel.z, 995, Milli)] ]

\* one run of the updater given to setBallPos: the next position and the
\* ballVel.current it leaves
PhysicsStep(pos, vel) ==
  LET ny == pos.y + vel.y
      nx == pos.x + vel.x
      nz == pos.z + vel.z
  IN  IF ny <= 0
      THEN IF Abs(vel.y) > 500
           THEN [ pos |-> [x |-> nx, y |-> 0, z |-> nz],
                  vel |-> [x |-> MulDiv(vel.x, 700, Milli),
                           y |-> MulDiv(vel.y, -500, Milli),
                           z |-> MulDiv(vel.z, 700, Milli)] ]
           ELSE [ pos |-> [x |-> nx, y |-> 0, z |-> nz],
                  vel |-> [x |-> MulDiv(vel.x, 950, Milli),
                           y |-> 0,
                           z |-> MulDiv(vel.z, 950, Milli)] ]
      ELSE [ pos |-> [x |-> nx, y |-> ny, z |-> nz],
             vel |-> [x |-> MulDiv(vel.x, 995, Milli),
                      y |-> vel.y - MulDiv(GRAVITY, 16, Milli),
                      z |-> MulDiv(vel.z, 995, Milli)] ]

\* faulty variant: the ground test is strict, and the clamped ball never
\* passes it
StopCondition_BelowGround(pos, vel) ==
  pos.y < 0 /\ Abs(vel.z) < 100 /\ Abs(vel.y) < 100

\* faulty variant: the forward speed is not tested
StopCondition_IgnoreForward(pos, vel) == pos.y <= 0 /\ Abs(vel.y) < 100

\* ballPos.y <= 0 && Math.abs(ballVel.current.z) < 0.1
\*                 && Math.abs(ballVel.current.y) < 0.1
StopCondition(pos, vel) == pos.y <= 0 /\ Abs(vel.z) < 100 /\ Abs(vel.y) < 100

\* Math.hypot(dx, dz), rounded down.  Beyond HypotExact metres in either leg
\* the longer leg is returned: a lower bound, and the result is compared
\* with 1 and 15 only.
HypotExact == 30
Hypot(dx, dz) ==
  IF Abs(dx) > HypotExact * Milli \/ Abs(dz) > HypotExact * Milli
  THEN (IF Abs(dx) > Abs(dz) THEN Abs(dx) ELSE Abs(dz))
  ELSE Sqrt(dx * dx + dz * dz)

\* faulty variant: the thresholds are inclusive
Terrain_Inclusive(pos) ==
  LET distToHole == Hypot(pos.x - HOLE_POS_3D.x, pos.z - HOLE_POS_3D.z)
  IN  IF distToHole <= 1 * Milli THEN "Hole"
      ELSE IF distToHole <= 15 * Milli THEN "Green"
      ELSE IF Abs(pos.x) <= 10 * Milli THEN "Fairway"
      ELSE "Rough"

\* the terrain rule of endShot
Terrain(pos) ==
  LET distToHole == Hypot(pos.x - HOLE_POS_3D.x, pos.z - HOLE_POS_3D.z)
  IN  IF distToHole < 1 * Milli THEN "Hole"
      ELSE IF distToHole < 15 * Milli THEN "Green"
      ELSE IF Abs(pos.x) < 10 * Milli THEN "Fairway"
      ELSE "Rough"

\* the ShotResult endShot builds from the ballPos it sees
MakeResult(pos) ==
  [ distance |-> pos.z, carry |-> pos.z, deviation |-> pos.x,
    landingTerrain |-> Terrain(pos), strokes |-> 1, power |-> 0, accuracy |-> 0 ]

-----------------------------------------------------------------------------
(* The callbacks *)

\* what lastEvent keeps of a callback: which one ran, the gameState it ran
\* in, and of a frame whether b and a reset button were held and, if the
\* frame got as far as the detection, the holdingTrigger it computed and
\* whether it started a swing (of a timer: the trigger flag it carried; of
\* a connect: its result)
Event(op, b, reset, held, start) ==
  [op |-> op, from |-> gameState, b |-> b, reset |-> reset, held |-> held,
   start |-> start]

\* the frame passes the reset check and the playable-state filter, and
\* reaches the address toggle and the swing detection
Detecting(data) ==
  ~(HoldingReset(data) /\ gameState = "Result") /\ Playable(gameState)

\* a callback that is no frame
Other(op, flag) == Event(op, FALSE, FALSE, flag, FALSE)

\* the variables of the JoyConService singleton, with their history
serviceVars == << device, onDataCallback, isConnected, globalPacketNumber,
                 listening, connecting, handshakes, lastSent, lastReport,
                 delivered, receiver, subscribed >>

NoDevice == 0
NoCallback == "null"
NoFrame == [none |-> TRUE]
NoReport == << >>

\* the service after construction
ServiceInit ==
  /\ device = NoDevice
  /\ onDataCallback = NoCallback
  /\ isConnected = FALSE
  /\ globalPacketNumber = 0
  /\ listening = FALSE
  /\ connecting = "no"
  /\ handshakes = EmptyBag
  /\ lastSent = NoFrame
  /\ lastReport = NoReport
  /\ delivered = NoFrame
  /\ receiver = NoCallback
  /\ subscribed = << >>

Init ==
  /\ gameState = "Intro"
  /\ inputMode = "MOUSE"
  /\ ballPos = Origin
  /\ currentClubIndex = 0
  /\ powerMeter = 0
  /\ isAddressMode = FALSE
  /\ shotResult = NoResult
  /\ commentary = ""
  /\ swingData = << >>
  /\ ballVel = Origin
  /\ swingPeakPower = 0
  /\ isSwinging = FALSE
  /\ swingTimer = NoTimer
  /\ timers = {}
  /\ now = 0
  /\ replies = 0
  /\ lastEvent = Other("init", FALSE)
  /\ ServiceInit

\* faulty variant: the reset leaves the ball where it is
resetGame_KeepsBall ==
  /\ ballPos' = ballPos
  /\ gameState' = "Idle"
  /\ shotResult' = NoResult
  /\ commentary' = ""
  /\ ballVel' = Origin

\* faulty variant: the reset keeps the commentary
resetGame_KeepCommentary ==
  /\ ballPos' = Origin
  /\ gameState' = "Idle"
  /\ shotResult' = NoResult
  /\ commentary' = commentary
  /\ ballVel' = Origin

\* faulty variant: the reset keeps the shot result
resetGame_KeepResult ==
  /\ ballPos' = Origin
  /\ gameState' = "Idle"
  /\ shotResult' = shotResult
  /\ commentary' = ""
  /\ ballVel' = Origin

\* resetGame
resetGame ==
  /\ ballPos' = Origin
  /\ gameState' = "Idle"
  /\ shotResult' = NoResult
  /\ commentary' = ""
  /\ ballVel' = Origin

\* faulty variant: the result of connect() is not consulted
handleJoyConConnect_AlwaysIdle(success) ==
  /\ gameState = "Intro"
  /\ inputMode' = "JOYCON"
  /\ gameState' = "Idle"
  /\ lastEvent' = Other("connect", success)
  /\ UNCHANGED << ballPos, currentClubIndex, powerMeter, isAddressMode, shotResult,
                  commentary, swingData, ballVel, swingPeakPower, isSwinging,
                  swingTimer, timers, now, replies >>

\* handleJoyConConnect: the button is rendered in Intro only; `success` is
\* what joyConService.connect() resolved to
handleJoyConConnect(success) ==
  /\ gameState = "Intro"
  /\ IF success
     THEN inputMode' = "JOYCON" /\ gameState' = "Idle"
     ELSE UNCHANGED << inputMode, gameState >>
  /\ lastEvent' = Other("connect", success)
  /\ UNCHANGED << ballPos, currentClubIndex, powerMeter, isAddressMode, shotResult,
                  commentary, swingData, ballVel, swingPeakPower, isSwinging,
                  swingTimer, timers, now, replies >>

\* processJoyConData, called by the service while the component is
\* subscribed (inputMode === 'JOYCON')
processJoyConData(data) ==
  /\ inputMode = "JOYCON"
  /\ lastEvent' = Event("frame", data.b, HoldingReset(data),
                       Detecting(data) /\ HoldingTrigger(data),
                       Detecting(data) /\ SwingStart(data, isSwinging))
  /\ IF HoldingReset(data) /\ gameState = "Result"
     THEN /\ resetGame
          /\ UNCHANGED << inputMode, currentClubIndex, powerMeter, isAddressMode,
                          swingData, swingPeakPower, isSwinging, swingTimer,
                          timers, now, replies >>
     ELSE IF ~Playable(gameState)
     THEN UNCHANGED << gameState, inputMode, ballPos, currentClubIndex, powerMeter,
                       isAddressMode, shotResult, commentary, swingData, ballVel,
                       swingPeakPower, isSwinging, swingTimer, timers, now, replies >>
     ELSE LET toggled == AddressToggle(data, gameState, isAddressMode)
              mag     == GyroMag(data)
              start   == SwingStart(data, isSwinging)
              armed   == isSwinging \/ start
              peak0   == IF start THEN 0 ELSE swingPeakPower
              buf0    == IF start THEN << >> ELSE swingData
          IN  /\ isAddressMode' = toggled[1]
              /\ gameState' = SwingState(start, HoldingTrigger(data), toggled[2])
              /\ powerMeter' = SmoothPower(powerMeter, InstantPower(mag))
              /\ isSwinging' = armed
              /\ IF start
                 THEN /\ timers' = ScheduleCapture(timers, swingTimer,
                                     HoldingTrigger(data), gameState, now)
                      /\ swingTimer' = FreshId(IF swingTimer # NoTimer
                                               THEN ClearTimeout(timers, swingTimer)
                                               ELSE timers)
                 ELSE UNCHANGED << timers, swingTimer >>
              /\ swingPeakPower' = IF armed THEN TrackPeak(peak0, mag) ELSE peak0
              /\ swingData' = IF armed
                              THEN AppendSample(buf0, [time |-> now, power |-> mag])
                              ELSE buf0
              /\ UNCHANGED << inputMode, ballPos, currentClubIndex, shotResult,
                              commentary, ballVel, now, replies >>

\* faulty variant: the launch leaves the address flag as it is
executeShot_KeepsAddress(power, rnd) ==
  /\ gameState' = "BallFlying"
  /\ isAddressMode' = isAddressMode
  /\ ballVel' = LaunchVelocity(power, CLUBS[currentClubIndex + 1], rnd)
  /\ shotResult' = NoResult

\* executeShot(power); rnd is the value Math.random() returns
executeShot(power, rnd) ==
  /\ gameState' = "BallFlying"
  /\ isAddressMode' = FALSE
  /\ ballVel' = LaunchVelocity(power, CLUBS[currentClubIndex + 1], rnd)
  /\ shotResult' = NoResult

\* faulty variant: the timer stays pending after its callback has run
TimerFires_StaysPending(t) ==
  /\ t \in timers
  /\ now >= t.deadline
  /\ timers' = timers
  /\ now' = now

\* setTimeout is one-shot: a callback runs once its delay has passed, and is
\* then no longer pending
TimerFires(t) ==
  /\ t \in timers
  /\ now >= t.deadline
  /\ timers' = timers \ {t}
  /\ now' = IF timers' = {} THEN 0 ELSE now

\* faulty variant: the practice branch always sets Address
PracticeState_Address(seen, current) == "Address"

\* the practice branch: if (gameState === SWINGING) setGameState(ADDRESS),
\* where gameState is the one finishSwing closed over (seen)
PracticeState(seen, current) == IF seen = "Swinging" THEN "Address" ELSE current

\* the capture timer t fires: finishSwing(t.held), reading the gameState of
\* the render it was created in (t.seen)
finishSwing(t, rnd) ==
  /\ TimerFires(t)
  /\ lastEvent' = Other("timer", t.held)
  /\ isSwinging' = FALSE
  /\ IF IsRealShot(t.held, PowerRatio(swingPeakPower))
     THEN executeShot(PowerRatio(swingPeakPower), rnd)
     ELSE /\ gameState' = PracticeState(t.seen, gameState)
          /\ UNCHANGED << isAddressMode, ballVel, shotResult >>
  /\ UNCHANGED << inputMode, ballPos, currentClubIndex, powerMeter, commentary,
                  swingData, swingPeakPower, swingTimer, replies >>

\* time passes while a capture timer is pending, up to the next deadline
Tick ==
  /\ timers # {}
  /\ \A t \in timers : now < t.deadline
  /\ now' = CHOOSE d \in {t.deadline : t \in timers} : \A t \in timers : d <= t.deadline
  /\ lastEvent' = Other("clock", FALSE)
  /\ UNCHANGED << gameState, inputMode, ballPos, currentClubIndex, powerMeter,
                  isAddressMode, shotResult, commentary, swingData, ballVel,
                  swingPeakPower, isSwinging, swingTimer, timers, replies >>

\* the velocity the stop condition of updatePhysics reads
SeenVelocity(eager) == IF eager THEN PhysicsStep(ballPos, ballVel).vel ELSE ballVel

\* endShot, reading the ballPos of the render updatePhysics was created in
endShot(pos) ==
  /\ gameState' = "Result"
  /\ shotResult' = MakeResult(pos)
  /\ commentary' = "Reading the green..."
  /\ replies' = replies + 1

\* updatePhysics, one animation frame.  React runs the updater given to
\* setBallPos either at once (eager: the stop condition then reads the
\* velocity it has just updated) or in the next render (the stop condition
\* reads the velocity of the previous tick).
updatePhysics(eager) ==
  /\ gameState = "BallFlying"
  /\ LET step == PhysicsStep(ballPos, ballVel)
     IN  /\ ballPos' = step.pos
         /\ ballVel' = step.vel
         /\ IF StopCondition(ballPos, SeenVelocity(eager))
            THEN endShot(ballPos)
            ELSE UNCHANGED << gameState, shotResult, commentary, replies >>
  /\ lastEvent' = Other("tick", FALSE)
  /\ UNCHANGED << inputMode, currentClubIndex, powerMeter, isAddressMode, swingData,
                  swingPeakPower, isSwinging, swingTimer, timers, now >>

\* the 'Next Shot' button of the result overlay (rendered while
\* gameState === RESULT && shotResult)
nextShot ==
  /\ gameState = "Result"
  /\ shotResult # NoResult
  /\ resetGame
  /\ lastEvent' = Other("next", FALSE)
  /\ UNCHANGED << inputMode, currentClubIndex, powerMeter, isAddressMode, swingData,
                  swingPeakPower, isSwinging, swingTimer, timers, now, replies >>

\* what can happen to the one remote call of getCaddieCommentary: it
\* resolves with a text, it resolves with no text, it throws
ProviderOutcomes == { "text", "empty", "throws" }

\* faulty variant: the catch throws the error on
getCaddieCommentary_Rethrows(hasKey, outcome) ==
  IF ~hasKey
  THEN [state |-> "fulfilled", value |-> "Nice shot! (AI Key missing)"]
  ELSE IF outcome = "throws"
       THEN [state |-> "rejected", value |-> "Gemini Error"]
       ELSE IF outcome = "empty"
            THEN [state |-> "fulfilled", value |-> "Interesting shot!"]
            ELSE [state |-> "fulfilled", value |-> "Striped it down the middle."]

\* getCaddieCommentary: how the promise it returns settles.  hasKey: the
\* build has process.env.API_KEY, so `ai` is set
getCaddieCommentary(hasKey, outcome) ==
  IF ~hasKey
  THEN [state |-> "fulfilled", value |-> "Nice shot! (AI Key missing)"]
  ELSE IF outcome = "throws"
       THEN [state |-> "fulfilled",
             value |-> "The wind is interfering with my voice... Nice shot though!"]
       ELSE IF outcome = "empty"
            THEN [state |-> "fulfilled", value |-> "Interesting shot!"]
            ELSE [state |-> "fulfilled", value |-> "Striped it down the middle."]

\* getCaddieCommentary(result).then(setCommentary)
commentaryReply(text) ==
  /\ replies > 0
  /\ replies' = replies - 1
  /\ commentary' = text
  /\ lastEvent' = Other("reply", FALSE)
  /\ UNCHANGED << gameState, inputMode, ballPos, currentClubIndex, powerMeter,
                  isAddressMode, shotResult, swingData, ballVel, swingPeakPower,
                  isSwinging, swingTimer, timers, now >>

-----------------------------------------------------------------------------
(* The environment: what the device, the browser and the player do *)

\* the device sends at most MaxWindowFrames frames within one capture
\* window, and a capture timer that is due runs before the next frame is
\* processed
FrameArrives ==
  /\ \A t \in timers : now < t.deadline
  /\ (Playable(gameState) /\ isSwinging) => Len(swingData) < MaxWindowFrames

\* at most MaxReplies commentary requests are outstanding: a flight does not
\* end before the service has answered an earlier one
FlightMayEnd(eager) ==
  replies < MaxReplies \/ ~StopCondition(ballPos, SeenVelocity(eager))

\* the game, with the service taken by its interface: the result of
\* connect() and the frames it delivers
Next ==
  \/ (\E success \in BOOLEAN : handleJoyConConnect(success)) /\ UNCHANGED serviceVars
  \/ (\E data \in Frames : FrameArrives /\ processJoyConData(data))
       /\ UNCHANGED serviceVars
  \/ (\E t \in timers, rnd \in RandomDraws : finishSwing(t, rnd))
       /\ UNCHANGED serviceVars
  \/ Tick /\ UNCHANGED serviceVars
  \/ (\E eager \in BOOLEAN : FlightMayEnd(eager) /\ updatePhysics(eager))
       /\ UNCHANGED serviceVars
  \/ nextShot /\ UNCHANGED serviceVars
  \/ (\E text \in CommentaryTexts : commentaryReply(text)) /\ UNCHANGED serviceVars

Spec == Init /\ [][Next]_vars

\* the capture timer is a browser timer: once due it runs
FairSpec ==
  /\ Spec
  /\ WF_vars(Tick /\ UNCHANGED serviceVars)
  /\ WF_vars((\E t \in timers, rnd \in RandomDraws : finishSwing(t, rnd))
               /\ UNCHANGED serviceVars)

-----------------------------------------------------------------------------
(* Animation frames outside a flight *)

\* updatePhysics when gameState is not BALL_FLYING: the body of its `if` is
\* skipped
idleAnimationFrame ==
  /\ gameState # "BallFlying"
  /\ lastEvent' = Other("tick", FALSE)
  /\ UNCHANGED << gameState, inputMode, ballPos, currentClubIndex, powerMeter,
                  isAddressMode, shotResult, commentary, swingData, ballVel,
                  swingPeakPower, isSwinging, swingTimer, timers, now, replies >>

\* the game, with the animation frames the browser runs in every state
AnimationNext ==
  \/ Next
  \/ idleAnimationFrame /\ UNCHANGED serviceVars

AnimationSpec == Init /\ [][AnimationNext]_vars

-----------------------------------------------------------------------------
(* Flights: the physics loop from the launches executeShot can produce *)

\* peaks (rad/s, Milli) of the swing that launched the ball: just above the
\* trigger threshold, 5.0, 9.0, MAX_POWER_GYRO, and beyond the cap of the
\* power ratio
LaunchPeaks == {3001, 5000, 9000, 18000, 25000}

\* Math.random() at the launch
LaunchDraws == {0, 500, 999}

\* the state finishSwing leaves when it launches the ball: a successful
\* connect, one frame in Idle with the trigger held and gyro magnitude
\* `peak`, and the expiry of its capture window
FlightInit ==
  \E peak \in LaunchPeaks, rnd \in LaunchDraws :
    /\ gameState = "BallFlying"
    /\ inputMode = "JOYCON"
    /\ ballPos = Origin
    /\ currentClubIndex = 0
    /\ powerMeter = SmoothPower(0, InstantPower(peak))
    /\ isAddressMode = FALSE
    /\ shotResult = NoResult
    /\ commentary = ""
    /\ swingData = << [time |-> 0, power |-> peak] >>
    /\ ballVel = LaunchVelocity(PowerRatio(peak), CLUBS[1], rnd)
    /\ swingPeakPower = peak
    /\ isSwinging = FALSE
    /\ swingTimer = 1
    /\ timers = {}
    /\ now = 0
    /\ replies = 0
    /\ lastEvent = [op |-> "timer", from |-> "Swinging", b |-> FALSE,
                    reset |-> FALSE, held |-> TRUE, start |-> FALSE]
    /\ ServiceInit

\* requestAnimationFrame(updatePhysics), frame after frame
FlightNext ==
  (\E eager \in BOOLEAN : updatePhysics(eager)) /\ UNCHANGED serviceVars

FlightSpec == FlightInit /\ [][FlightNext]_vars

\* the browser keeps running animation frames
FairFlightSpec == FlightSpec /\ WF_vars(FlightNext)

-----------------------------------------------------------------------------
(* Ground contacts: the physics loop around the bounce threshold *)

\* heights (Milli) of the ball before the tick: on the ground, just above
\* it, and well above it
ContactHeights == {0, 200, 3000}

\* vertical speeds (Milli per tick) before the tick: falling fast, around
\* the bounce threshold of 0.5 on both sides, at rest, and rising
ContactSpeeds == {-3000, -501, -500, -499, 0, 499, 500, 501, 2000}

\* a flight in progress at one of the heights with one of the vertical
\* speeds; the sideways speed is twice the vertical one, the forward speed
\* 2.0
ContactInit ==
  \E y \in ContactHeights, vy \in ContactSpeeds :
    /\ gameState = "BallFlying"
    /\ inputMode = "JOYCON"
    /\ ballPos = [x |-> 0, y |-> y, z |-> 0]
    /\ currentClubIndex = 0
    /\ powerMeter = SmoothPower(0, InstantPower(MAX_POWER_GYRO))
    /\ isAddressMode = FALSE
    /\ shotResult = NoResult
    /\ commentary = ""
    /\ swingData = << [time |-> 0, power |-> MAX_POWER_GYRO] >>
    /\ ballVel = [x |-> 2 * Abs(vy), y |-> vy, z |-> 2000]
    /\ swingPeakPower = MAX_POWER_GYRO
    /\ isSwinging = FALSE
    /\ swingTimer = 1
    /\ timers = {}
    /\ now = 0
    /\ replies = 0
    /\ lastEvent = [op |-> "tick", from |-> "BallFlying", b |-> FALSE,
                    reset |-> FALSE, held |-> FALSE, start |-> FALSE]
    /\ ServiceInit

ContactNext ==
  (\E eager \in BOOLEAN : updatePhysics(eager)) /\ UNCHANGED serviceVars

ContactSpec == ContactInit /\ [][ContactNext]_vars

-----------------------------------------------------------------------------
(* Landings: endShot on a grid of positions around its thresholds *)

\* final positions (Milli): x across the fairway limit, z before, around and
\* beyond the hole
LandingXs == { -20000, -10000, -9999, -5000, -999, 0, 600, 999, 1000, 5000,
               9999, 10000, 12000, 20000 }
LandingZs == { 250000, 285000, 285001, 290000, 291000, 299000, 299001, 299200,
               300000, 300800, 301000, 314999, 315000, 330000, 360000 }

\* a flight whose ball has come to rest on the ground at one of the
\* positions; the next animation frame ends it
LandingInit ==
  \E x \in LandingXs, z \in LandingZs :
    /\ gameState = "BallFlying"
    /\ inputMode = "JOYCON"
    /\ ballPos = [x |-> x, y |-> 0, z |-> z]
    /\ currentClubIndex = 0
    /\ powerMeter = SmoothPower(0, InstantPower(MAX_POWER_GYRO))
    /\ isAddressMode = FALSE
    /\ shotResult = NoResult
    /\ commentary = ""
    /\ swingData = << [time |-> 0, power |-> MAX_POWER_GYRO] >>
    /\ ballVel = Origin
    /\ swingPeakPower = MAX_POWER_GYRO
    /\ isSwinging = FALSE
    /\ swingTimer = 1
    /\ timers = {}
    /\ now = 0
    /\ replies = 0
    /\ lastEvent = [op |-> "tick", from |-> "BallFlying", b |-> FALSE,
                    reset |-> FALSE, held |-> FALSE, start |-> FALSE]
    /\ ServiceInit

LandingNext ==
  (\E eager \in BOOLEAN : updatePhysics(eager)) /\ UNCHANGED serviceVars

LandingSpec == LandingInit /\ [][LandingNext]_vars

-----------------------------------------------------------------------------
(* The service: connect(), the handshake and the report decoder of          *)
(* src/services/joyconService.ts (the class of lines 223-471).  A report is *)
(* the tuple of its first 25 bytes; byte i of the DataView is element i+1.  *)
(* The rawHex string of a frame is a debugging aid and is left out.         *)

\* Joy-Con L (0x2006) and Joy-Con R (0x2007)
JoyConL == 8198
JoyConR == 8199
PRODUCT_IDS == { JoyConL, JoyConR }

\* report ids: Standard Full Mode (0x30) and Simple Mode (0x3F)
FullTag == 48
SimpleTag == 63

\* Math.random() < 0.05, Milli
RetryBelow == 50

\* handshakes that are in progress at the same time: in a session from its
\* start, and in a burst of Simple Mode reports
MaxOverlap == 2
MaxBurst == 8

\* faulty variant: the motion sensor is enabled before the vibration
HandshakeCommands_MotionFirst ==
  << [command |-> 64, data |-> << 1 >>],
     [command |-> 72, data |-> << 1 >>],
     [command |-> 3,  data |-> << 48 >>] >>

\* the subcommands of initializeDevice in program order: 0x48 [0x01],
\* 0x40 [0x01], 0x03 [0x30]
HandshakeCommands ==
  << [command |-> 72, data |-> << 1 >>],
     [command |-> 64, data |-> << 1 >>],
     [command |-> 3,  data |-> << 48 >>] >>

\* data.getUint8(i)
Byte(data, i) == data[i + 1]

\* data.getInt16(i, true): little endian, two's complement
Int16(data, i) ==
  LET u == Byte(data, i) + 256 * Byte(data, i + 1)
  IN  IF u >= 32768 THEN u - 65536 ELSE u

\* !!(byte & mask) for a mask of one bit
Bit(byte, mask) == (byte \div mask) % 2 = 1

\* the default empty state of the buttons
DefaultButtons ==
  [zr |-> FALSE, zl |-> FALSE, r |-> FALSE, l |-> FALSE,
   a |-> FALSE, b |-> FALSE, x |-> FALSE, y |-> FALSE,
   plus |-> FALSE, minus |-> FALSE, home |-> FALSE, capture |-> FALSE,
   up |-> FALSE, down |-> FALSE, left |-> FALSE, right |-> FALSE,
   stick |-> FALSE, rStickClick |-> FALSE, lStickClick |-> FALSE,
   sl |-> FALSE, sr |-> FALSE]

\* faulty variant: the left shoulder buttons read the bits of the right
\* ones (byte 3)
FullButtons_SharedShoulders(data) ==
  LET bRight  == Byte(data, 3)
      bShared == Byte(data, 4)
      bLeft   == Byte(data, 5)
  IN  [y |-> Bit(bRight, 1), x |-> Bit(bRight, 2), b |-> Bit(bRight, 4),
       a |-> Bit(bRight, 8), r |-> Bit(bRight, 64), zr |-> Bit(bRight, 128),
       sl |-> Bit(bRight, 16), sr |-> Bit(bRight, 32),
       minus |-> Bit(bShared, 1), plus |-> Bit(bShared, 2),
       rStickClick |-> Bit(bShared, 4), lStickClick |-> Bit(bShared, 8),
       home |-> Bit(bShared, 16), capture |-> Bit(bShared, 32),
       stick |-> Bit(bShared, 4) \/ Bit(bShared, 8),
       down |-> Bit(bLeft, 1), up |-> Bit(bLeft, 2), right |-> Bit(bLeft, 4),
       left |-> Bit(bLeft, 8), l |-> Bit(bRight, 64), zl |-> Bit(bRight, 128)]

\* the buttons of a Standard Full Mode report: bytes 3 (right), 4 (shared)
\* and 5 (left)
FullButtons(data) ==
  LET bRight  == Byte(data, 3)
      bShared == Byte(data, 4)
      bLeft   == Byte(data, 5)
  IN  [y |-> Bit(bRight, 1), x |-> Bit(bRight, 2), b |-> Bit(bRight, 4),
       a |-> Bit(bRight, 8), r |-> Bit(bRight, 64), zr |-> Bit(bRight, 128),
       sl |-> Bit(bRight, 16), sr |-> Bit(bRight, 32),
       minus |-> Bit(bShared, 1), plus |-> Bit(bShared, 2),
       rStickClick |-> Bit(bShared, 4), lStickClick |-> Bit(bShared, 8),
       home |-> Bit(bShared, 16), capture |-> Bit(bShared, 32),
       stick |-> Bit(bShared, 4) \/ Bit(bShared, 8),
       down |-> Bit(bLeft, 1), up |-> Bit(bLeft, 2), right |-> Bit(bLeft, 4),
       left |-> Bit(bLeft, 8), l |-> Bit(bLeft, 64), zl |-> Bit(bLeft, 128)]

\* faulty variant: a Simple Mode report decoded like a full one
SimpleButtons_AsFull(data) == FullButtons(data)

\* the buttons of a Simple Mode report: the hat of byte 1 over the defaults
SimpleButtons(data) ==
  LET b1 == Byte(data, 1)
  IN  [DefaultButtons EXCEPT !.a = Bit(b1, 1), !.x = Bit(b1, 2),
                             !.b = Bit(b1, 4), !.y = Bit(b1, 8),
                             !.sl = Bit(b1, 16), !.sr = Bit(b1, 32)]

\* the three stick bytes: 6-8 for Joy-Con L, 9-11 for Joy-Con R
StickBytes(data, productId) ==
  IF productId = JoyConL
  THEN << Byte(data, 6), Byte(data, 7), Byte(data, 8) >>
  ELSE IF productId = JoyConR
       THEN << Byte(data, 9), Byte(data, 10), Byte(data, 11) >>
       ELSE << 0, 0, 0 >>

\* 12-bit stick axes, (raw - 2048) / 2048 in Milli; all-zero bytes leave
\* the stick at (0, 0)
Stick(data, productId) ==
  LET s    == StickBytes(data, productId)
      rawX == s[1] + (s[2] % 16) * 256
      rawY == (s[2] \div 16) + s[3] * 16
  IN  IF s[1] # 0 \/ s[2] # 0 \/ s[3] # 0
      THEN [x |-> MulDiv(rawX - 2048, Milli, 2048),
            y |-> MulDiv(rawY - 2048, Milli, 2048)]
      ELSE [x |-> 0, y |-> 0]

\* accel = int16 * 0.000244 and gyro = int16 * 0.061, in Milli
Accel(data) ==
  [x |-> MulDiv(Int16(data, 13), 244, 1000),
   y |-> MulDiv(Int16(data, 15), 244, 1000),
   z |-> MulDiv(Int16(data, 17), 244, 1000)]

Gyro(data) ==
  [x |-> Int16(data, 19) * 61, y |-> Int16(data, 21) * 61, z |-> Int16(data, 23) * 61]

\* faulty variant: a Simple Mode report is decoded like a full one
ParseInputReport_SimpleAsFull(data, productId) ==
  IF Byte(data, 0) = FullTag \/ Byte(data, 0) = SimpleTag
  THEN [accel |-> Accel(data), gyro |-> Gyro(data),
        stick |-> Stick(data, productId), buttons |-> FullButtons(data)]
  ELSE [accel |-> Origin, gyro |-> Origin, stick |-> [x |-> 0, y |-> 0],
        buttons |-> DefaultButtons]

\* parseInputReport up to the callback: the JoyConData it has built when it
\* reaches `if (this.onDataCallback)`
ParseInputReport(data, productId) ==
  IF Byte(data, 0) = FullTag
  THEN [accel |-> Accel(data), gyro |-> Gyro(data),
        stick |-> Stick(data, productId), buttons |-> FullButtons(data)]
  ELSE IF Byte(data, 0) = SimpleTag
       THEN [accel |-> Origin, gyro |-> Origin, stick |-> [x |-> 0, y |-> 0],
             buttons |-> SimpleButtons(data)]
       ELSE [accel |-> Origin, gyro |-> Origin, stick |-> [x |-> 0, y |-> 0],
             buttons |-> DefaultButtons]

\* what processJoyConData reads of a JoyConData
GameFrame(frame) ==
  [b |-> frame.buttons.b, y |-> frame.buttons.y, zr |-> frame.buttons.zr,
   zl |-> frame.buttons.zl, gyro |-> frame.gyro]

\* input reports of a controller that is held still
\*   full, no button, gravity on z, a slow turn about x
\*   full, ZR held, both sticks off centre, a slow turn back about x and z
\*   full, ZL held (a Joy-Con L)
\*   simple, hat B, and bytes that a full report would decode as ZR, ZL,
\*     sticks and motion
\*   simple, every bit of byte 1 set
\*   a subcommand reply (0x21) with the ZR and ZL bits and motion bytes set
Reports ==
  { << 48, 1, 142, 0, 0, 0, 0, 0, 0, 0, 0, 0, 0,
       0, 0, 0, 0, 0, 16, 10, 0, 0, 0, 0, 0 >>,
    << 48, 2, 142, 128, 0, 0, 171, 119, 128, 52, 40, 115, 0,
       20, 0, 0, 0, 0, 16, 240, 255, 0, 0, 5, 0 >>,
    << 48, 3, 142, 0, 0, 128, 0, 8, 128, 0, 0, 0, 0,
       0, 0, 0, 0, 0, 16, 0, 0, 0, 0, 0, 0 >>,
    << 63, 4, 0, 128, 12, 128, 171, 119, 128, 52, 40, 115, 0,
       20, 0, 0, 0, 0, 16, 240, 255, 0, 0, 5, 0 >>,
    << 63, 255, 255, 0, 0, 0, 0, 0, 0, 0, 0, 0, 0,
       0, 0, 0, 0, 0, 0, 0, 0, 0, 0, 0, 0 >>,
    << 33, 5, 142, 128, 0, 128, 171, 119, 128, 52, 40, 115, 0,
       20, 0, 0, 0, 0, 16, 240, 255, 0, 0, 5, 0 >> }

\* what requestDevice and open can do: no device (no WebHID, the chooser
\* dismissed, a rejection), a device whose open() rejects, a device that
\* opens
DeviceChoices ==
  { [productId |-> NoDevice, opens |-> FALSE] }
    \cup [productId : PRODUCT_IDS, opens : BOOLEAN]

\* faulty variant: the counter does not wrap
NextPacketNumber_NoWrap(n) == n + 1

\* (this.globalPacketNumber + 1) & 0xF
NextPacketNumber(n) == (n + 1) % 16

\* the output report sendSubcommand hands to device.sendReport(0x01, buf);
\* `previous` is byte 0 of the frame sent before it (-1: none)
OutputFrame(packet, cmd) ==
  [packet |-> packet, command |-> cmd.command, data |-> cmd.data,
   previous |-> IF lastSent = NoFrame THEN -1 ELSE lastSent.packet]

\* sendSubcommand(cmd) up to its await, with the counter at `from`
sendSubcommand(from, cmd) ==
  /\ globalPacketNumber' = NextPacketNumber(from)
  /\ lastSent' = OutputFrame(NextPacketNumber(from), cmd)

\* initializeDevice up to its first await: the counter is reset and the
\* first subcommand is on its way.  A handshake in progress is the sequence
\* of the subcommands it has sent, the last of which has not settled.
initializeDevice ==
  /\ device # NoDevice
  /\ sendSubcommand(0, HandshakeCommands[1])
  /\ handshakes' = handshakes (+) SetToBag({ << HandshakeCommands[1].command >> })

\* the last two of a sequence
LastTwo(seq) == IF Len(seq) > 2 THEN SubSeq(seq, Len(seq) - 1, Len(seq)) ELSE seq

\* faulty variant: a registered callback is kept
subscribe_FirstWins(cb) ==
  /\ onDataCallback' = IF onDataCallback = NoCallback THEN cb ELSE onDataCallback
  /\ subscribed' = LastTwo(Append(subscribed, cb))

\* subscribe(cb)
subscribe(cb) ==
  /\ onDataCallback' = cb
  /\ subscribed' = LastTwo(Append(subscribed, cb))

\* a callback of the service that is no frame for the game
ServiceEvent(op, flag) ==
  /\ lastEvent' = Other(op, flag)
  /\ UNCHANGED << gameState, inputMode, ballPos, currentClubIndex, powerMeter,
                  isAddressMode, shotResult, commentary, swingData, ballVel,
                  swingPeakPower, isSwinging, swingTimer, timers, now, replies >>

\* the Intro button: handleJoyConConnect calls connect(), which runs up to
\* the 100 ms wait or returns false
connect(choice) ==
  /\ gameState = "Intro"
  /\ connecting = "no"
  /\ UNCHANGED << onDataCallback, globalPacketNumber, listening, handshakes,
                  lastSent, lastReport, delivered, receiver, subscribed >>
  /\ IF choice.productId = NoDevice
     THEN /\ handleJoyConConnect(FALSE)
          /\ UNCHANGED << device, isConnected, connecting >>
     ELSE /\ device' = choice.productId
          /\ IF choice.opens
             THEN /\ isConnected' = TRUE
                  /\ connecting' = "wait"
                  /\ ServiceEvent("request", TRUE)
             ELSE /\ handleJoyConConnect(FALSE)
                  /\ UNCHANGED << isConnected, connecting >>

\* the 100 ms have passed: connect() calls initializeDevice and awaits it
connectInitializes ==
  /\ connecting = "wait"
  /\ connecting' = "init"
  /\ initializeDevice
  /\ ServiceEvent("initialize", TRUE)
  /\ UNCHANGED << device, onDataCallback, isConnected, listening, lastReport,
                  delivered, receiver, subscribed >>

\* faulty variant: a rejected send of the handshake of connect() makes
\* connect() return false
sendSettles_FatalFailure(h, ok) ==
  /\ BagIn(h, handshakes)
  /\ IF ok /\ Len(h) < Len(HandshakeCommands)
     THEN /\ sendSubcommand(globalPacketNumber, HandshakeCommands[Len(h) + 1])
          /\ handshakes' = (handshakes (-) SetToBag({ h }))
                             (+) SetToBag({ Append(h, HandshakeCommands[Len(h) + 1].command) })
          /\ ServiceEvent("settle", ok)
          /\ UNCHANGED << onDataCallback, subscribed, listening, connecting >>
     ELSE /\ handshakes' = handshakes (-) SetToBag({ h })
          /\ UNCHANGED << globalPacketNumber, lastSent >>
          /\ IF connecting = "init"
             THEN IF ok
                  THEN /\ listening' = TRUE
                       /\ connecting' = "no"
                       /\ handleJoyConConnect(TRUE)
                       /\ subscribe("processJoyConData")
                  ELSE /\ connecting' = "no"
                       /\ handleJoyConConnect(FALSE)
                       /\ UNCHANGED << onDataCallback, subscribed, listening >>
             ELSE /\ ServiceEvent("settle", ok)
                  /\ UNCHANGED << onDataCallback, subscribed, listening, connecting >>
  /\ UNCHANGED << device, isConnected, lastReport, delivered, receiver >>

\* the sendReport promise of handshake h settles.  Resolved, the handshake
\* sends its next subcommand or is complete; rejected, the catch ends it.
\* When the handshake of connect() ends, connect() attaches the listener and
\* returns true, handleJoyConConnect enters Idle in JOYCON mode and the
\* effect of that render subscribes processJoyConData.
sendSettles(h, ok) ==
  /\ BagIn(h, handshakes)
  /\ IF ok /\ Len(h) < Len(HandshakeCommands)
     THEN /\ sendSubcommand(globalPacketNumber, HandshakeCommands[Len(h) + 1])
          /\ handshakes' = (handshakes (-) SetToBag({ h }))
                             (+) SetToBag({ Append(h, HandshakeCommands[Len(h) + 1].command) })
          /\ ServiceEvent("settle", ok)
          /\ UNCHANGED << onDataCallback, subscribed, listening, connecting >>
     ELSE /\ handshakes' = handshakes (-) SetToBag({ h })
          /\ UNCHANGED << globalPacketNumber, lastSent >>
          /\ IF connecting = "init"
             THEN /\ listening' = TRUE
                  /\ connecting' = "no"
                  /\ handleJoyConConnect(TRUE)
                  /\ subscribe("processJoyConData")
             ELSE /\ ServiceEvent("settle", ok)
                  /\ UNCHANGED << onDataCallback, subscribed, listening, connecting >>
  /\ UNCHANGED << device, isConnected, lastReport, delivered, receiver >>

\* faulty variant: every report that is not a full one may re-initialize
RetryGate_NotFull(data, rnd) == Byte(data, 0) # FullTag /\ rnd < RetryBelow

\* the re-initialization of parseInputReport: a Simple Mode report and
\* Math.random() < 0.05
RetryGate(data, rnd) == Byte(data, 0) = SimpleTag /\ rnd < RetryBelow

\* an inputreport event: parseInputReport(data); rnd is the value
\* Math.random() returns
inputReport(data, rnd) ==
  /\ listening
  /\ lastReport' = data
  /\ IF RetryGate(data, rnd)
     THEN initializeDevice
     ELSE UNCHANGED << globalPacketNumber, lastSent, handshakes >>
  /\ receiver' = onDataCallback
  /\ LET frame == ParseInputReport(data, device)
         seen  == GameFrame(frame)
     IN  IF onDataCallback # NoCallback
         THEN /\ delivered' = frame
              /\ processJoyConData(seen)
         ELSE /\ delivered' = NoFrame
              /\ ServiceEvent("report", FALSE)
  /\ UNCHANGED << device, onDataCallback, isConnected, listening, connecting,
                  subscribed >>

\* at most `most` handshakes are in progress at once
RetryMayStart(data, rnd, most) ==
  RetryGate(data, rnd) => BagCardinality(handshakes) < most

ServiceNext ==
  \/ \E choice \in DeviceChoices : connect(choice)
  \/ connectInitializes
  \/ \E h \in BagToSet(handshakes), ok \in BOOLEAN : sendSettles(h, ok)
  \/ \E data \in Reports, rnd \in RandomDraws :
       RetryMayStart(data, rnd, MaxOverlap) /\ inputReport(data, rnd)

ServiceSpec == Init /\ [][ServiceNext]_vars

\* a Simple Mode report passes the retry gate
retry ==
  \E data \in Reports, rnd \in RandomDraws :
    RetryGate(data, rnd) /\ RetryMayStart(data, rnd, MaxOverlap) /\ inputReport(data, rnd)

\* the device keeps sending Simple Mode reports and Math.random() does not
\* stay at or above 0.05 for ever
FairServiceSpec == ServiceSpec /\ WF_vars(retry)

-----------------------------------------------------------------------------
(* Bursts: a controller that stays in Simple Mode after connect() *)

\* the reports of Reports that carry the Simple Mode tag
SimpleReports == { data \in Reports : Byte(data, 0) = SimpleTag }

\* connect() has succeeded on a Joy-Con R: its handshake has sent its
\* three subcommands and the listener is attached; cb is the callback in the
\* slot, subs the callbacks subscribe was called with
ConnectedOn(productId, cb, subs) ==
  /\ gameState = "Idle"
  /\ inputMode = "JOYCON"
  /\ ballPos = Origin
  /\ currentClubIndex = 0
  /\ powerMeter = 0
  /\ isAddressMode = FALSE
  /\ shotResult = NoResult
  /\ commentary = ""
  /\ swingData = << >>
  /\ ballVel = Origin
  /\ swingPeakPower = 0
  /\ isSwinging = FALSE
  /\ swingTimer = NoTimer
  /\ timers = {}
  /\ now = 0
  /\ replies = 0
  /\ lastEvent = [op |-> "connect", from |-> "Intro", b |-> FALSE,
                  reset |-> FALSE, held |-> TRUE, start |-> FALSE]
  /\ device = productId
  /\ onDataCallback = cb
  /\ isConnected = TRUE
  /\ globalPacketNumber = Len(HandshakeCommands)
  /\ listening = TRUE
  /\ connecting = "no"
  /\ handshakes = EmptyBag
  /\ lastSent = [packet |-> 3, command |-> HandshakeCommands[3].command,
                 data |-> HandshakeCommands[3].data, previous |-> 2]
  /\ lastReport = NoReport
  /\ delivered = NoFrame
  /\ receiver = NoCallback
  /\ subscribed = subs

\* ... on a Joy-Con R
Connected(cb, subs) == ConnectedOn(JoyConR, cb, subs)

\* ... and the effect of the render that followed has subscribed the game
BurstInit == Connected("processJoyConData", << "processJoyConData" >>)

BurstNext ==
  \/ \E h \in BagToSet(handshakes), ok \in BOOLEAN : sendSettles(h, ok)
  \/ \E data \in SimpleReports, rnd \in RandomDraws :
       RetryMayStart(data, rnd, MaxBurst) /\ inputReport(data, rnd)

BurstSpec == BurstInit /\ [][BurstNext]_vars

-----------------------------------------------------------------------------
(* Subscriptions: the callback slot between renders *)

\* processJoyConData as two renders of the component create it
Callbacks == { "processJoyConData", "processJoyConData of the next render" }

\* connect() has returned true and the component has rendered in JOYCON
\* mode; the effect that subscribes has not run yet
SubscriberInit == Connected(NoCallback, << >>)

\* the subscription effect of a render
subscriptionEffect(cb) ==
  /\ inputMode = "JOYCON"
  /\ subscribe(cb)
  /\ ServiceEvent("subscribe", TRUE)
  /\ UNCHANGED << device, isConnected, globalPacketNumber, listening, connecting,
                  handshakes, lastSent, lastReport, delivered, receiver >>

SubscriberNext ==
  \/ \E cb \in Callbacks : subscriptionEffect(cb)
  \/ \E data \in Reports, rnd \in RandomDraws :
       RetryMayStart(data, rnd, MaxOverlap) /\ inputReport(data, rnd)
  \/ \E h \in BagToSet(handshakes), ok \in BOOLEAN : sendSettles(h, ok)

SubscriberSpec == SubscriberInit /\ [][SubscriberNext]_vars

-----------------------------------------------------------------------------
(* Swings: the capture window with peaks up to and beyond the power cap *)

\* gyro vectors (rad/s, Milli) of magnitude 0, 5.0, MAX_POWER_GYRO, 19.799,
\* 19.8 (where peak / 18 reaches 1.1) and 25.0
SwingVectors ==
  { [x |-> m, y |-> 0, z |-> 0] : m \in {0, 5000, 18000, 19799, 19800, 25000} }

\* frames of a player who holds or releases zr and swings
SwingFrames ==
  [ b : {FALSE}, y : {FALSE}, zr : BOOLEAN, zl : {FALSE}, gyro : SwingVectors ]

\* the session after a successful connect
SwingInit == Connected("processJoyConData", << "processJoyConData" >>)

\* frames, the clock and the capture timer, up to the launch
SwingNext ==
  \/ (\E data \in SwingFrames : FrameArrives /\ processJoyConData(data))
       /\ UNCHANGED serviceVars
  \/ (\E t \in timers, rnd \in RandomDraws : finishSwing(t, rnd))
       /\ UNCHANGED serviceVars
  \/ Tick /\ UNCHANGED serviceVars

SwingSpec == SwingInit /\ [][SwingNext]_vars

-----------------------------------------------------------------------------
(* Long swings: capture windows with more frames than the buffer keeps *)

\* the gyro magnitude of the next frame: a swing starts just above the
\* trigger threshold and rises by 0.001 rad/s from frame to frame, so that
\* every sample of a window is told apart
RampMagnitude ==
  IF isSwinging /\ swingData # << >>
  THEN swingData[Len(swingData)].power + 1
  ELSE SWING_TRIGGER_THRESHOLD + 1

\* the frame of the ramp, with the trigger held or not
RampFrame(zr) ==
  [ b |-> FALSE, y |-> FALSE, zr |-> zr, zl |-> FALSE,
    gyro |-> [x |-> RampMagnitude, y |-> 0, z |-> 0] ]

\* the device sends at most MaxBufferFrames frames within one capture
\* window, all of them before its deadline
RampFrameArrives ==
  /\ \A t \in timers : now < t.deadline
  /\ RampMagnitude <= SWING_TRIGGER_THRESHOLD + MaxBufferFrames

\* the session after a successful connect
BufferInit == Connected("processJoyConData", << "processJoyConData" >>)

BufferNext ==
  \/ (\E zr \in BOOLEAN : RampFrameArrives /\ processJoyConData(RampFrame(zr)))
       /\ UNCHANGED serviceVars
  \/ (\E t \in timers, rnd \in RandomDraws : finishSwing(t, rnd))
       /\ UNCHANGED serviceVars
  \/ Tick /\ UNCHANGED serviceVars

BufferSpec == BufferInit /\ [][BufferNext]_vars

-----------------------------------------------------------------------------
(* Decoding: full reports over button bytes and stick values *)

\* values of a button byte: no bit, each single bit, a mixed pattern, all
\* bits
ButtonBytes == {0, 1, 2, 4, 8, 16, 32, 64, 128, 165, 255}

\* 12-bit stick values: the ends, the centre, and values around the nibble
\* and byte borders of the packing
StickValues == {0, 1, 15, 16, 255, 256, 2047, 2048, 4095}

\* two 12-bit values in three bytes, the layout the decoder reads
PackStick(X, Y) ==
  << X % 256, (X \div 256) + (Y % 16) * 16, Y \div 16 >>

\* a full report with the three button bytes, the stick bytes of the left
\* (6-8) and of the right controller (9-11), and no motion
FullReport(bRight, bShared, bLeft, left, right) ==
  << FullTag, 0, 142, bRight, bShared, bLeft >> \o left \o right
    \o << 0, 0, 0, 0, 0, 0, 0, 0, 0, 0, 0, 0, 0 >>

\* reports over the right and left button bytes, reports over the shared
\* byte (the sticks at the centre in both), and reports over the stick
\* values: (X, Y) in the bytes of the left controller, (Y, X) in the bytes
\* of the right one
DecodeReports ==
  { FullReport(r, s, l, PackStick(2048, 2048), PackStick(2048, 2048)) :
      r \in ButtonBytes, s \in {0, 165}, l \in ButtonBytes }
    \cup { FullReport(0, s, 0, PackStick(2048, 2048), PackStick(2048, 2048)) :
             s \in ButtonBytes }
    \cup { FullReport(0, 0, 0, PackStick(X, Y), PackStick(Y, X)) :
             X \in StickValues, Y \in StickValues }

\* the session after a successful connect on either controller
DecodeInit ==
  \E productId \in PRODUCT_IDS :
    ConnectedOn(productId, "processJoyConData", << "processJoyConData" >>)

DecodeNext ==
  \E data \in DecodeReports, rnd \in RandomDraws : inputReport(data, rnd)

DecodeSpec == DecodeInit /\ [][DecodeNext]_vars

-----------------------------------------------------------------------------
(* Degraded input: Simple Mode reports in every state of a session *)

\* a report with the given tag, hat byte and right button byte, and a gyro
\* x of `turn` raw units (0.061 rad/s each)
MotionReport(tag, hat, bRight, turn) ==
  << tag, hat, 142, bRight, 0, 0, 0, 0, 0, 0, 0, 0, 0,
     0, 0, 0, 0, 0, 0, turn, 0, 0, 0, 0, 0 >>

\* full reports: still with no button, still with ZR held, a swing of 6.1
\* rad/s with ZR held; simple reports whose other bytes are those of the
\* swing with ZR held: no hat button, hat B, hat Y
DegradedReports ==
  { MotionReport(FullTag, 0, 0, 0),
    MotionReport(FullTag, 0, 128, 0),
    MotionReport(FullTag, 0, 128, 100),
    MotionReport(SimpleTag, 0, 128, 100),
    MotionReport(SimpleTag, 4, 128, 100),
    MotionReport(SimpleTag, 8, 128, 100) }

\* the session after a successful connect
DegradedInit == Connected("processJoyConData", << "processJoyConData" >>)

\* reports, the capture timer and the flight; Math.random() stays above the
\* retry threshold, so that no handshake is re-issued here (ServiceSpec and
\* BurstSpec have the retries)
DegradedNext ==
  \/ \E data \in DegradedReports, rnd \in RandomDraws :
       /\ FrameArrives
       /\ ~RetryGate(data, rnd)
       /\ inputReport(data, rnd)
  \/ (\E t \in timers, rnd \in RandomDraws : finishSwing(t, rnd))
       /\ UNCHANGED serviceVars
  \/ Tick /\ UNCHANGED serviceVars
  \/ (\E eager \in BOOLEAN : FlightMayEnd(eager) /\ updatePhysics(eager))
       /\ UNCHANGED serviceVars

DegradedSpec == DegradedInit /\ [][DegradedNext]_vars

-----------------------------------------------------------------------------
(* Properties *)

\* the step just taken was the callback op
Ran(op) == lastEvent'.op = op

\* the edges of the session state machine as the specification lists them
ListedEdges ==
  { << "Intro", "Idle" >>, << "Idle", "Address" >>, << "Address", "Idle" >>,
    << "Address", "Swinging" >>, << "Swinging", "BallFlying" >>,
    << "Swinging", "Address" >>, << "BallFlying", "Result" >>,
    << "Result", "Idle" >> }

\* C1 as stated: every change of gameState is one of the listed edges
\* (Swinging is entered from Address only).  lastEvent.from is the gameState
\* the last callback started in, gameState the one it left.
C1_ListedEdgesOnly ==
  gameState # lastEvent.from => << lastEvent.from, gameState >> \in ListedEdges

\* C1, amended: every change of gameState is one of the listed edges or
\* Idle -> Swinging (a frame in Idle that holds the trigger and starts a
\* swing sets Address and then Swinging in the same callback).
C1_Edges ==
  gameState # lastEvent.from =>
    << lastEvent.from, gameState >> \in ListedEdges \cup { << "Idle", "Swinging" >> }

\* a frame processed in Idle has left the session in Swinging
C1_IdleToSwinging ==
  /\ lastEvent.op = "frame"
  /\ lastEvent.from = "Idle"
  /\ gameState = "Swinging"

\* C2: a frame with buttons.b processed in Result leaves the session in Idle
\* with the ball at the origin, whatever else the frame holds.
C2_ResetOnB ==
  (lastEvent.op = "frame" /\ lastEvent.from = "Result" /\ lastEvent.b)
    => (gameState = "Idle" /\ ballPos = Origin)

\* a frame with b held has reset a Result
C2_ResetSeen ==
  /\ lastEvent.op = "frame"
  /\ lastEvent.from = "Result"
  /\ lastEvent.b
  /\ gameState = "Idle"
  /\ shotResult = NoResult
  /\ commentary = ""

\* C3: a frame processed in Intro or BallFlying, or in Result with neither b
\* nor y held, changes none of gameState, ballPos, ballVel, the detector
\* (isSwinging, swingPeakPower, swingTimer and the pending timers),
\* isAddressMode, powerMeter, swingData.
C3_IgnoredFrames ==
  [][ ( /\ Ran("frame")
        /\ \/ gameState \in {"Intro", "BallFlying"}
           \/ gameState = "Result" /\ ~lastEvent'.reset )
      => UNCHANGED << gameState, ballPos, ballVel, isSwinging, swingPeakPower,
                      swingTimer, timers, isAddressMode, powerMeter, swingData >> ]_vars

\* a frame holding a reset button was processed during a flight, the ball in
\* the air, and the flight goes on
C3_ResetHeldInFlight ==
  /\ lastEvent.op = "frame"
  /\ lastEvent.from = "BallFlying"
  /\ lastEvent.reset
  /\ gameState = "BallFlying"
  /\ ballPos.y > 0

\* C4: after a frame processed in Idle or Address that did not start a
\* trigger-held swing the session is in Address if the frame held the
\* trigger and in Idle if not; a frame processed in Swinging leaves the
\* session in Swinging.
C4_AddressFollowsTrigger ==
  lastEvent.op = "frame" =>
    /\ (lastEvent.from \in {"Idle", "Address"} /\ ~(lastEvent.start /\ lastEvent.held))
         => gameState = (IF lastEvent.held THEN "Address" ELSE "Idle")
    /\ lastEvent.from = "Swinging" => gameState = "Swinging"

\* a frame that released the trigger in Address has moved the session to
\* Idle without starting a swing
C4_Released ==
  /\ lastEvent.op = "frame"
  /\ lastEvent.from = "Address"
  /\ ~lastEvent.held
  /\ ~lastEvent.start
  /\ gameState = "Idle"

\* C5 as stated: a frame that starts a swing leaves the session in Swinging
\* if it holds the trigger, and in the state it was in if not.
C5_PracticeKeepsState ==
  (lastEvent.op = "frame" /\ lastEvent.start)
    => gameState = (IF lastEvent.held THEN "Swinging" ELSE lastEvent.from)

\* C5, amended: a frame that starts a swing leaves the session in Swinging
\* if and only if it holds the trigger; without the trigger the address
\* toggle alone decides, and the session is in Idle (from Address too).
C5_SwingStart ==
  (lastEvent.op = "frame" /\ lastEvent.start)
    => gameState = (IF lastEvent.held THEN "Swinging" ELSE "Idle")

\* a practice swing started in Address by a frame that released the trigger
C5_PracticeFromAddress ==
  /\ lastEvent.op = "frame"
  /\ lastEvent.start
  /\ ~lastEvent.held
  /\ lastEvent.from = "Address"
  /\ gameState = "Idle"
  /\ isSwinging

\* C6: when the capture timer runs, the shot is executed (gameState becomes
\* BallFlying, ballVel is set to a forward velocity) if and only if the
\* trigger was held at the swing start and min(peak / MAX_POWER_GYRO, 1.1)
\* exceeds 0.1; otherwise gameState does not become BallFlying and ballPos,
\* ballVel are unchanged.
C6_ShotIffCommitted ==
  [][ Ran("timer") =>
        IF lastEvent'.held /\ swingPeakPower * 10 > MAX_POWER_GYRO
        THEN gameState' = "BallFlying" /\ ballVel'.z > 0 /\ ballVel'.y > 0
        ELSE gameState' # "BallFlying" /\ UNCHANGED << ballPos, ballVel >> ]_vars

\* a window that was started with the trigger held has expired into a flight
C6_ShotExecuted ==
  /\ lastEvent.op = "timer"
  /\ lastEvent.held
  /\ gameState = "BallFlying"
  /\ ballVel # Origin

\* C7 as stated: after the capture timer has run without a shot the session
\* is in Address.
C7_PracticeEndsInAddress ==
  (lastEvent.op = "timer" /\ gameState # "BallFlying") => gameState = "Address"

\* C7, amended: after the capture timer has run without a shot the session
\* is in the state it was in before the timer ran, Idle or Address.
C7_PracticeKeepsState ==
  (lastEvent.op = "timer" /\ gameState # "BallFlying")
    => (gameState = lastEvent.from /\ gameState \in {"Idle", "Address"})

\* a practice window has expired with the session in Idle
C7_PracticeEndedInIdle ==
  /\ lastEvent.op = "timer"
  /\ ~lastEvent.held
  /\ gameState = "Idle"
  /\ ~isSwinging

\* C8, the state part: at most one capture timer is pending, swingTimer is
\* its handle, and isSwinging holds exactly when one is pending
C8_OnePending ==
  /\ Cardinality(timers) <= 1
  /\ isSwinging <=> timers # {}
  /\ \A t \in timers : t.id = swingTimer

\* C8, the step part: a frame processed while isSwinging schedules nothing,
\* does not reset the peak and does not clear the samples; and isSwinging
\* is set only when no timer is pending
C8_NoRestart ==
  /\ (isSwinging /\ Ran("frame"))
       => /\ ~lastEvent'.start
          /\ UNCHANGED << timers, swingTimer >>
          /\ isSwinging'
          /\ swingPeakPower' >= swingPeakPower
          /\ Len(swingData') >= Len(swingData)
  /\ (~isSwinging /\ isSwinging') => (timers = {} /\ Ran("frame") /\ lastEvent'.start)

\* C8: single in-flight capture.
C8_SingleInFlightCapture == []C8_OnePending /\ [][C8_NoRestart]_vars

\* a frame above the threshold was processed while a window was pending,
\* and started nothing
C8_SecondSwingIgnored ==
  /\ isSwinging
  /\ lastEvent.op = "frame"
  /\ ~lastEvent.start
  /\ Len(swingData) = 2
  /\ swingData[2].power > SWING_TRIGGER_THRESHOLD
  /\ Cardinality(timers) = 1

\* the largest power among the samples of the window
MaxSample(buf) ==
  CHOOSE m \in { buf[i].power : i \in 1..Len(buf) } :
    \A i \in 1..Len(buf) : buf[i].power <= m

\* C9, the state part: while a window is pending the peak is the largest
\* magnitude of the frames processed since the arming frame, that frame
\* included
C9_PeakIsMax ==
  isSwinging => (Len(swingData) >= 1 /\ swingPeakPower = MaxSample(swingData))

\* C9, the step part: the window ends by its timer only, the timer runs
\* CaptureWindowMs after the arming frame and not earlier, and reads the
\* peak of the window
C9_EndsByTimer ==
  /\ (isSwinging /\ ~isSwinging') => Ran("timer")
  /\ Ran("timer") =>
       /\ isSwinging
       /\ now = swingData[1].time + CaptureWindowMs
       /\ swingPeakPower = MaxSample(swingData)
       /\ UNCHANGED << swingPeakPower, swingData >>

\* C9: a swing that crosses the threshold once is completed exactly once, by
\* its timer, CaptureWindowMs after the arming frame and not earlier, with
\* the maximum magnitude of the window's frames as its peak.
C9_OneCompletion ==
  /\ []C9_PeakIsMax
  /\ [][C9_EndsByTimer]_vars
  /\ (isSwinging ~> ~isSwinging)

\* a window whose second frame had decayed below the threshold has expired
\* into a shot with the arming frame's magnitude as its peak
C9_DecayedSwingCompleted ==
  /\ lastEvent.op = "timer"
  /\ Len(swingData) = 2
  /\ swingData[2].power < SWING_TRIGGER_THRESHOLD
  /\ swingPeakPower = swingData[1].power
  /\ gameState = "BallFlying"

\* setTimeout after clearTimeout: scheduling a window while the timer
\* `handle` is pending leaves the new timer alone pending
LastStartWins ==
  \A held \in BOOLEAN, again \in BOOLEAN :
    LET earlier == [id |-> 1, held |-> held, seen |-> "Idle", deadline |-> 400]
        after   == ScheduleCapture({earlier}, earlier.id, again, "Address", 200)
    IN  /\ earlier \notin after
        /\ Cardinality(after) = 1
        /\ \A t \in after : t.held = again /\ t.deadline = 200 + CaptureWindowMs

\* C10, the step part: the timer callback runs only while isSwinging, clears
\* it and leaves no timer pending; a swing start leaves exactly its own
\* timer pending
C10_FiresOnce ==
  /\ Ran("timer") => (isSwinging /\ ~isSwinging' /\ timers' = {})
  /\ (~isSwinging /\ isSwinging') => (Ran("frame") /\ lastEvent'.start)
  /\ (Ran("frame") /\ lastEvent'.start)
       => (~isSwinging /\ isSwinging'
           /\ timers' = { [id |-> swingTimer', held |-> lastEvent'.held,
                           seen |-> gameState, deadline |-> now + CaptureWindowMs] })

\* C10: finishSwing does not run twice without a swing start in between,
\* and a window scheduled while another is pending replaces it.
C10_NoDoubleFire == []LastStartWins /\ [][C10_FiresOnce]_vars

\* finishSwing has run for a later swing while the commentary of an earlier
\* shot is still outstanding
C10_SecondCompletion ==
  /\ lastEvent.op = "timer"
  /\ replies > 0
  /\ ~isSwinging
  /\ timers = {}

\* C11: the ball height is never negative, whatever the launch and however
\* many physics ticks have run.
C11_HeightNonNegative == ballPos.y >= 0

\* the ball has come down and bounced: it is on the ground, moving upwards
C11_Bounced ==
  /\ gameState = "BallFlying"
  /\ lastEvent.op = "tick"
  /\ ballPos.y = 0
  /\ ballVel.y > 0
  /\ ballPos.z > 0

\* C12: every flight ends: from BallFlying the physics ticks lead to Result,
\* with the ball on the ground and its forward and vertical speed below 0.1.
C12_FlightTerminates ==
  (gameState = "BallFlying")
    ~> (gameState = "Result" /\ ballPos.y = 0
        /\ Abs(ballVel.z) < 100 /\ Abs(ballVel.y) < 100)

\* a flight launched at the capped power ratio has ended
C12_LongestFlightEnded ==
  /\ gameState = "Result"
  /\ swingPeakPower = 25000
  /\ ballPos.z > HOLE_DISTANCE * Milli

\* C13: when the session is in Result after a flight the ball is on the
\* ground and its speeds along x, y and z are all below 0.1.
C13_EndsAtRest ==
  (gameState = "Result" /\ lastEvent.op = "tick")
    => /\ ballPos.y = 0
       /\ Abs(ballVel.x) < 100
       /\ Abs(ballVel.y) < 100
       /\ Abs(ballVel.z) < 100

\* a flight that deviated sideways has ended
C13_EndedOffLine ==
  /\ gameState = "Result"
  /\ lastEvent.op = "tick"
  /\ lastEvent.from = "BallFlying"
  /\ ballPos.x # 0

\* the ShotResult classifies the position (x, z) = (deviation, distance)
Landed(x, z) ==
  /\ gameState = "Result"
  /\ shotResult.deviation = x
  /\ shotResult.distance = z

\* (x, z) is less than r metres from the hole at (0, HOLE_DISTANCE),
\* r at most 15
Within(x, z, r) ==
  LET dz == z - HOLE_DISTANCE * Milli
  IN  /\ Abs(x) < r * Milli
      /\ Abs(dz) < r * Milli
      /\ x * x + dz * dz < (r * Milli) * (r * Milli)

\* C14: the terrain of a ShotResult is Hole within 1 m of the hole, else
\* Green within 15 m, else Fairway if |x| < 10, else Rough; in particular
\* (0,300) is Hole, (0,290) Green, (5,250) Fairway and (20,250) Rough.
C14_TerrainRule ==
  gameState = "Result" =>
    LET x == shotResult.deviation
        z == shotResult.distance
        t == shotResult.landingTerrain
    IN  /\ t = (IF Within(x, z, 1) THEN "Hole"
                ELSE IF Within(x, z, 15) THEN "Green"
                ELSE IF Abs(x) < 10 * Milli THEN "Fairway"
                ELSE "Rough")
        /\ t \in {"Hole", "Green", "Fairway", "Rough"}
        /\ Landed(0, 300000) => t = "Hole"
        /\ Landed(0, 290000) => t = "Green"
        /\ Landed(5000, 250000) => t = "Fairway"
        /\ Landed(20000, 250000) => t = "Rough"

\* a ball exactly 15 m from the hole and 12 m off the line is in the rough
C14_JustOffTheGreen ==
  /\ Landed(12000, 291000)
  /\ shotResult.landingTerrain = "Rough"

\* C15 as stated: in Result, distance and carry of the ShotResult are the z
\* and deviation the x of the position the ball rests at, strokes is 1,
\* power and accuracy are 0.
C15_ResultIsFinalPosition ==
  gameState = "Result" =>
    /\ shotResult.distance = ballPos.z
    /\ shotResult.carry = ballPos.z
    /\ shotResult.deviation = ballPos.x
    /\ shotResult.strokes = 1
    /\ shotResult.power = 0
    /\ shotResult.accuracy = 0

\* C16, the state part: a ShotResult is stored exactly while the session is
\* in Result
C16_ResultOnlyInResult == (shotResult # NoResult) <=> (gameState = "Result")

\* C16, the step part: a ShotResult is stored only by the tick that ends a
\* flight, and no step that stays in Result changes it
C16_StoredOnce ==
  /\ (shotResult' # shotResult /\ shotResult' # NoResult)
       => (gameState = "BallFlying" /\ gameState' = "Result" /\ Ran("tick")
           /\ shotResult = NoResult)
  /\ (gameState = "BallFlying" /\ gameState' = "Result") => shotResult' # NoResult
  /\ (gameState = "Result" /\ gameState' = "Result") => shotResult' = shotResult

\* C16: one ShotResult per completed flight, stored exactly while the
\* session is in Result and unchanged until the session leaves it.
C16_OneResultPerFlight == []C16_ResultOnlyInResult /\ [][C16_StoredOnce]_vars

\* the commentary has arrived in Result, and the result is still stored
C16_ResultKeptAfterReply ==
  /\ gameState = "Result"
  /\ lastEvent.op = "reply"
  /\ lastEvent.from = "Result"
  /\ shotResult # NoResult
  /\ shotResult.strokes = 1

\* the report parsed last carries neither the full nor the simple tag
OtherTagParsed(data) ==
  data # NoReport /\ Byte(data, 0) # FullTag /\ Byte(data, 0) # SimpleTag

\* C17 as stated: a report whose first byte is neither 0x30 nor 0x3F is
\* ignored: its parse delivers no frame to the subscriber and changes no
\* session, detector or service state.
C17_OtherTagIgnored ==
  [][(lastEvent'.op \in {"frame", "report"} /\ OtherTagParsed(lastReport'))
       => /\ delivered' = NoFrame
          /\ UNCHANGED << gameState, inputMode, powerMeter, isAddressMode,
                          swingData, swingPeakPower, isSwinging, swingTimer,
                          timers, device, onDataCallback, isConnected,
                          globalPacketNumber, listening, handshakes >>]_vars

\* the button names of a JoyConData that the hat of a Simple Mode report
\* can set
HatButtons == {"a", "x", "b", "y", "sl", "sr"}

\* C18: the frame delivered for a Simple Mode (0x3F) report has accel, gyro
\* and stick zero, and none of its buttons outside a, x, b, y, sl, sr is
\* true.
C18_SimpleFrameIsHatOnly ==
  (lastReport # NoReport /\ Byte(lastReport, 0) = SimpleTag /\ delivered # NoFrame)
    => /\ delivered.accel = [x |-> 0, y |-> 0, z |-> 0]
       /\ delivered.gyro = [x |-> 0, y |-> 0, z |-> 0]
       /\ delivered.stick = [x |-> 0, y |-> 0]
       /\ DOMAIN delivered.buttons = DOMAIN DefaultButtons
       /\ \A k \in DOMAIN delivered.buttons \ HatButtons : ~delivered.buttons[k]

\* a Simple Mode report was delivered whose byte 3, byte 5, stick and motion
\* bytes are set: hat B is decoded, nothing else
C18_SimpleWithFullBytes ==
  /\ lastEvent.op = "frame"
  /\ lastReport # NoReport
  /\ Byte(lastReport, 0) = SimpleTag
  /\ Bit(Byte(lastReport, 3), 128)
  /\ Bit(Byte(lastReport, 5), 128)
  /\ Int16(lastReport, 19) # 0
  /\ Byte(lastReport, 9) # 0
  /\ delivered # NoFrame
  /\ delivered.buttons.b
  /\ ~delivered.buttons.a

\* C19, the state part: every handshake in progress has sent a beginning of
\* 0x48, 0x40, 0x03, in that order
C19_InOrder ==
  \A h \in BagToSet(handshakes) : h \in { << 72 >>, << 72, 64 >>, << 72, 64, 3 >> }

\* C19, the step part: a 0x40 goes out only in the step in which the send
\* of a 0x48 has completed, a 0x03 (with 0x30) only in the step in which
\* the send of the 0x40 of a handshake that began with 0x48 has completed
C19_AfterCompletion ==
  /\ (lastSent' # lastSent /\ lastSent'.command = 64)
       => /\ lastEvent'.op = "settle" /\ lastEvent'.held
          /\ BagIn(<< 72 >>, handshakes)
          /\ CopiesIn(<< 72 >>, handshakes') = CopiesIn(<< 72 >>, handshakes) - 1
          /\ lastSent'.data = << 1 >>
  /\ (lastSent' # lastSent /\ lastSent'.command = 3)
       => /\ lastEvent'.op = "settle" /\ lastEvent'.held
          /\ BagIn(<< 72, 64 >>, handshakes)
          /\ CopiesIn(<< 72, 64 >>, handshakes') = CopiesIn(<< 72, 64 >>, handshakes) - 1
          /\ lastSent'.data = << 48 >>
  /\ (lastSent' # NoFrame) => lastSent'.command \in {72, 64, 3}

\* C19: every handshake sends 0x48, 0x40, 0x03 (0x30) in this order, each
\* only after the send before it has completed.
C19_StrictOrder == []C19_InOrder /\ [][C19_AfterCompletion]_vars

\* a retry has sent all three subcommands while a later one still waits
\* for its 0x48
C19_TwoHandshakes ==
  /\ BagIn(<< 72, 64, 3 >>, handshakes)
  /\ BagIn(<< 72 >>, handshakes)
  /\ listening

\* C20 as stated: byte 0 of every output frame is in 0..15 and is the
\* number of the frame sent before it plus one, modulo 16.
C20_AlwaysRolls ==
  lastSent # NoFrame
    => /\ lastSent.packet \in 0..15
       /\ lastSent.previous # -1 => lastSent.packet = (lastSent.previous + 1) % 16

\* C20, amended: byte 0 of every output frame is in 0..15; the first frame
\* of a handshake (0x48) carries 1 whatever was sent before it, every other
\* frame carries the number of the frame sent before it plus one, modulo 16.
C20_RollsWithinHandshakes ==
  lastSent # NoFrame
    => /\ lastSent.packet \in 0..15
       /\ lastSent.packet = IF lastSent.command = 72
                            THEN 1
                            ELSE (lastSent.previous + 1) % 16

\* the counter has wrapped from 15 to 0
C20_Wrapped ==
  lastSent # NoFrame /\ lastSent.packet = 0 /\ lastSent.previous = 15

\* C21, the step part: however the handshake of connect() ends, connect()
\* attaches the listener and returns true, and the session goes from Intro
\* to Idle in JOYCON mode with the game subscribed
C21_ConnectCompletes ==
  (connecting = "init" /\ connecting' # "init")
    => /\ listening'
       /\ onDataCallback' # NoCallback
       /\ gameState = "Intro" /\ gameState' = "Idle"
       /\ inputMode' = "JOYCON"
       /\ lastEvent' = [op |-> "connect", from |-> "Intro", b |-> FALSE,
                        reset |-> FALSE, held |-> TRUE, start |-> FALSE]

\* C21, the state part: once the listener is attached every report parsed
\* is delivered to the subscriber
C21_Delivered ==
  (listening /\ lastReport # NoReport) => (delivered # NoFrame /\ receiver # NoCallback)

\* C21: a handshake command that fails is not fatal: connect() still
\* listens and returns true, the session still goes Intro -> Idle, and the
\* reports that follow are still delivered.
C21_FailureNotFatal == []C21_Delivered /\ [][C21_ConnectCompletes]_vars

\* the first command of the handshake of connect() failed (nothing but its
\* 0x48 was ever sent), and a Simple Mode frame has been delivered in Idle
C21_DegradedAfterFailure ==
  /\ listening
  /\ handshakes = EmptyBag
  /\ lastSent # NoFrame
  /\ lastSent.command = 72
  /\ lastSent.previous = -1
  /\ gameState = "Idle"
  /\ lastReport # NoReport
  /\ Byte(lastReport, 0) = SimpleTag
  /\ delivered # NoFrame

\* C22: after a connect() that returned false the session is in Intro, the
\* input mode is not JOYCON, no callback is subscribed, the connection flag
\* is false, no listener is attached, and nothing of a connect or a
\* handshake is in progress.
C22_FailedConnect ==
  (lastEvent.op = "connect" /\ ~lastEvent.held)
    => /\ gameState = "Intro"
       /\ inputMode = "MOUSE"
       /\ onDataCallback = NoCallback
       /\ ~isConnected
       /\ ~listening
       /\ connecting = "no"
       /\ handshakes = EmptyBag
       /\ lastSent = NoFrame

\* connect() returned false because open() threw on a granted device
C22_OpenThrew ==
  /\ lastEvent.op = "connect"
  /\ ~lastEvent.held
  /\ device # NoDevice
  /\ gameState = "Intro"

\* the callback given to the latest subscribe, NoCallback before the first
LatestSubscriber ==
  IF subscribed = << >> THEN NoCallback ELSE subscribed[Len(subscribed)]

\* C23: the slot holds the callback of the latest subscribe; a report is
\* delivered to that callback and to no other, and a report parsed while
\* no callback is registered is dropped: nothing is delivered and the game
\* does not see it.
C23_LastSubscriberWins ==
  /\ onDataCallback = LatestSubscriber
  /\ lastEvent.op \in {"frame", "report"}
       => /\ receiver = LatestSubscriber
          /\ (receiver = NoCallback) <=> (delivered = NoFrame)
          /\ (receiver = NoCallback) <=> (lastEvent.op = "report")

\* after subscribe(a) and subscribe(b) a frame went to b
C23_SecondSubscriberServed ==
  /\ Len(subscribed) = 2
  /\ subscribed[1] # subscribed[2]
  /\ lastEvent.op = "frame"
  /\ receiver = subscribed[2]
  /\ delivered # NoFrame

\* C24, the provider: getCaddieCommentary settles by resolving to a string
\* in every case, and the replies of the model are among its values
C24_AlwaysResolves ==
  /\ \A hasKey \in BOOLEAN, outcome \in ProviderOutcomes :
        /\ getCaddieCommentary(hasKey, outcome).state = "fulfilled"
        /\ getCaddieCommentary(hasKey, outcome).value \in STRING
  /\ getCaddieCommentary(FALSE, "text").value = "Nice shot! (AI Key missing)"
  /\ getCaddieCommentary(TRUE, "throws").value
       = "The wind is interfering with my voice... Nice shot though!"
  /\ CommentaryTexts \subseteq
       { getCaddieCommentary(hasKey, outcome).value :
           hasKey \in BOOLEAN, outcome \in ProviderOutcomes }

\* C24, the arrival: a commentary response changes the commentary field and
\* nothing of the session, the ball, the shot result or the detector
C24_OnlyCommentary ==
  Ran("reply")
    => /\ commentary' \in CommentaryTexts
       /\ UNCHANGED << gameState, inputMode, ballPos, ballVel, shotResult,
                       currentClubIndex, powerMeter, isAddressMode, swingData,
                       swingPeakPower, isSwinging, swingTimer, timers >>

\* C24: the commentary provider always resolves to a string and never
\* rejects, and the arrival of its response changes the commentary field
\* only, in whichever state it arrives.
C24_ProviderNeverBlocks == []C24_AlwaysResolves /\ [][C24_OnlyCommentary]_vars

\* a response has arrived during the flight of a later shot
C24_ReplyInFlight ==
  /\ lastEvent.op = "reply"
  /\ lastEvent.from = "BallFlying"
  /\ gameState = "BallFlying"
  /\ commentary \in CommentaryTexts
  /\ ballPos.z > 0

\* the step has parsed a Simple Mode report
SimpleParsed ==
  /\ lastEvent'.op \in {"frame", "report"}
  /\ lastReport' # NoReport
  /\ Byte(lastReport', 0) = SimpleTag

\* C25, the step part: a handshake begins only in connect() or in the parse
\* of a Simple Mode report, and the parse of a Simple Mode report delivers
\* its frame and leaves the listener attached
C25_OnlyBySimpleReports ==
  /\ BagCardinality(handshakes') > BagCardinality(handshakes)
       => \/ lastEvent'.op = "initialize" /\ connecting' = "init"
          \/ SimpleParsed
  /\ SimpleParsed
       => /\ delivered' # NoFrame
          /\ listening'
          /\ gameState' \in {"Idle", "Address"}

\* C25, the progress part: while the listener is attached and no handshake
\* is in progress, a handshake is eventually begun again
C25_EventuallyReissued ==
  (listening /\ handshakes = EmptyBag) ~> (handshakes # EmptyBag)

\* C25: the handshake is re-issued only on a Simple Mode (0x3F) report,
\* never on a full report or a report with another tag; a Simple Mode
\* report is not fatal; and with a fair gate the handshake is eventually
\* re-issued.
C25_RetryOnSimpleOnly == [][C25_OnlyBySimpleReports]_vars /\ C25_EventuallyReissued

\* a Simple Mode report has begun a retry: its 0x48 is on its way, after the
\* three frames of the handshake of connect()
C25_RetryBegun ==
  /\ lastEvent.op = "frame"
  /\ lastReport # NoReport
  /\ Byte(lastReport, 0) = SimpleTag
  /\ handshakes = SetToBag({ << 72 >> })
  /\ lastSent.command = 72
  /\ lastSent.previous = 3
  /\ delivered # NoFrame

\* the frame delivered last was processed by the address toggle
ToggleRan ==
  /\ lastEvent.op = "frame"
  /\ lastEvent.from \in {"Idle", "Address"}
  /\ delivered # NoFrame

\* C26 as stated: the trigger-held boolean of a frame is true exactly when
\* its button b or its button zl is held.
C26_TriggerIsBOrZl ==
  ToggleRan => (lastEvent.held <=> (delivered.buttons.b \/ delivered.buttons.zl))

\* C26, amended: the trigger-held boolean of a frame is true exactly when
\* its button zr or its button zl is held, and the frame leaves the session
\* in Address exactly when it is true.
C26_TriggerIsZrOrZl ==
  ToggleRan
    => /\ lastEvent.held <=> (delivered.buttons.zr \/ delivered.buttons.zl)
       /\ lastEvent.held <=> (gameState = "Address")
       /\ lastEvent.held <=> isAddressMode

\* a frame with b held and no trigger came in Address: the session is in
\* Idle
C26_BDoesNotAddress ==
  /\ ToggleRan
  /\ lastEvent.from = "Address"
  /\ delivered.buttons.b
  /\ ~delivered.buttons.zr
  /\ ~delivered.buttons.zl
  /\ gameState = "Idle"

\* the three velocity updates of a physics tick, stated on the velocity
\* before (v) and after (w) it
Bounced(v, w) ==
  /\ w.y = MulDiv(v.y, -500, Milli)
  /\ w.x = MulDiv(v.x, 700, Milli)
  /\ w.z = MulDiv(v.z, 700, Milli)

Rolled(v, w) ==
  /\ w.y = 0
  /\ w.x = MulDiv(v.x, 950, Milli)
  /\ w.z = MulDiv(v.z, 950, Milli)

Flew(v, w) ==
  /\ w.y = v.y - MulDiv(GRAVITY, 16, Milli)
  /\ w.x = MulDiv(v.x, 995, Milli)
  /\ w.z = MulDiv(v.z, 995, Milli)

\* C27: a physics tick moves the ball by its velocity; when the new height
\* is at or below the ground it is clamped to 0 and the ball bounces if the
\* vertical speed exceeds 0.5 and rolls otherwise (a speed of exactly 0.5
\* rolls), and gravity is not applied; when the new height is above the
\* ground, gravity and air drag are applied.
C27_TickRule ==
  [][ Ran("tick")
        => /\ ballPos'.x = ballPos.x + ballVel.x
           /\ ballPos'.z = ballPos.z + ballVel.z
           /\ IF ballPos.y + ballVel.y <= 0
              THEN /\ ballPos'.y = 0
                   /\ IF ballVel.y > 500 \/ ballVel.y < -500
                      THEN Bounced(ballVel, ballVel')
                      ELSE Rolled(ballVel, ballVel')
              ELSE /\ ballPos'.y = ballPos.y + ballVel.y
                   /\ Flew(ballVel, ballVel') ]_vars

\* the ball that came down at exactly 0.5 from just above the ground is
\* rolling
C27_BoundaryRolls ==
  /\ lastEvent.op = "tick"
  /\ ballPos = [x |-> 1000, y |-> 0, z |-> 2000]
  /\ ballVel = [x |-> 950, y |-> 0, z |-> 1900]

\* min(peak / 18, 1.1) as the specification spells it out: 1.1 from a peak
\* of 19.8 on, peak / 18 below
CappedRatio(peak) ==
  IF peak >= 19800 THEN 1100 ELSE MulDiv(peak, Milli, MAX_POWER_GYRO)

\* C28: the power ratio of a launch is min(peak / 18, 1.1): the ball leaves
\* with the velocity of a ratio that is 1.1 for every peak of 19.8 or more
\* and peak / 18 below, and that never exceeds 1.1.
C28_RatioCapped ==
  [][ (Ran("timer") /\ gameState' = "BallFlying")
        => /\ CappedRatio(swingPeakPower) <= 1100
           /\ swingPeakPower < 19800 => CappedRatio(swingPeakPower) < 1100
           /\ \E rnd \in RandomDraws :
                ballVel' = LaunchVelocity(CappedRatio(swingPeakPower),
                                          CLUBS[currentClubIndex + 1], rnd) ]_vars

\* a swing that peaked at 25.0 launched the ball with the velocity of a
\* ratio of 1.1
C28_CappedLaunch ==
  /\ lastEvent.op = "timer"
  /\ gameState = "BallFlying"
  /\ swingPeakPower = 25000
  /\ ballVel = LaunchVelocity(1100, CLUBS[currentClubIndex + 1], 0)

\* the step just taken was one of the two ways out of Result: a frame with a
\* reset button held, or the 'Next Shot' button
ResetRequested == Ran("next") \/ (Ran("frame") /\ lastEvent'.reset)

\* C29: a session in Result leaves it only by a frame with a reset button
\* held or by 'Next Shot'; either one runs the same reset (Idle, ball
\* position and velocity at the origin, no result, empty commentary) and
\* leaves the armed flag, the peak, the timer, the club index and the swing
\* buffer as they were; any other step leaves the session in Result.
C29_SameReset ==
  [][ gameState = "Result"
        => IF ResetRequested
           THEN /\ gameState' = "Idle"
                /\ ballPos' = Origin
                /\ ballVel' = Origin
                /\ shotResult' = NoResult
                /\ commentary' = ""
                /\ UNCHANGED << isSwinging, swingPeakPower, swingTimer, timers,
                                currentClubIndex, swingData >>
           ELSE gameState' = "Result" ]_vars

\* a reset by button has left Result with the peak, the timer handle and
\* the buffer of the swing that made the shot
C29_ResetByButton ==
  /\ lastEvent.op = "frame"
  /\ lastEvent.reset
  /\ lastEvent.from = "Result"
  /\ gameState = "Idle"
  /\ shotResult = NoResult
  /\ swingPeakPower > 0
  /\ swingTimer # NoTimer
  /\ swingData # << >>

\* C30: whether a swing becomes a real shot is decided by the trigger state
\* of the frame that armed it.  The capture timer is created with that
\* state, the frames inside the window leave it alone, and the timer
\* launches the ball exactly when it carries a held trigger and the power
\* ratio exceeds 0.1: a trigger pressed later in the window does not make a
\* shot, a trigger released inside the window does not prevent it.
C30_ArmingFrameDecides ==
  [][ /\ (Ran("frame") /\ lastEvent'.start)
          => \A t \in timers' \ timers : t.held = lastEvent'.held
      /\ (Ran("frame") /\ ~lastEvent'.start) => timers' = timers
      /\ Ran("timer")
          => \A t \in timers \ timers' :
               (gameState' = "BallFlying")
                 <=> (t.held /\ PowerRatio(swingPeakPower) > 100) ]_vars

\* a swing armed without the trigger has run out in Address: the trigger
\* was pressed inside its window, the peak was enough for a shot, and the
\* ball was not launched
C30_LatePressNoShot ==
  /\ lastEvent.op = "timer"
  /\ ~lastEvent.held
  /\ lastEvent.from = "Address"
  /\ gameState = "Address"
  /\ isAddressMode
  /\ PowerRatio(swingPeakPower) > 100

\* the last n entries of a sequence (all of it when it is shorter)
LastEntries(seq, n) ==
  IF Len(seq) <= n THEN seq ELSE SubSeq(seq, Len(seq) - n + 1, Len(seq))

\* C31: the swing buffer is emptied at every swing start, where the sample
\* of the arming frame becomes its first and only entry; a frame processed
\* while the detector is armed appends its sample to the last 40 entries;
\* nothing else changes the buffer; and the buffer holds at most 41 entries.
C31_BoundedBuffer ==
  [][ /\ Len(swingData') <= 41
      /\ (Ran("frame") /\ lastEvent'.start)
          => /\ Len(swingData') = 1
             /\ swingData'[1].power = swingPeakPower'
             /\ swingData'[1].power > SWING_TRIGGER_THRESHOLD
      /\ (Ran("frame") /\ ~lastEvent'.start /\ Playable(gameState) /\ isSwinging)
          => /\ Len(swingData') = Len(LastEntries(swingData, 40)) + 1
             /\ SubSeq(swingData', 1, Len(swingData') - 1) = LastEntries(swingData, 40)
      /\ (~Ran("frame") \/ ~Playable(gameState) \/ ~isSwinging')
          => swingData' = swingData ]_vars

\* a window of more than 41 frames: the buffer is full and the sample of
\* the arming frame has been dropped from its front
C31_FrontDropped ==
  /\ lastEvent.op = "frame"
  /\ isSwinging
  /\ Len(swingData) = 41
  /\ swingData[1].power > SWING_TRIGGER_THRESHOLD + 1
  /\ swingData[41].power = swingData[1].power + 40

\* the bit-position table of the buttons: name, byte of the report, mask
ButtonTable ==
  { << "y", 3, 1 >>, << "x", 3, 2 >>, << "b", 3, 4 >>, << "a", 3, 8 >>,
    << "sl", 3, 16 >>, << "sr", 3, 32 >>, << "r", 3, 64 >>, << "zr", 3, 128 >>,
    << "minus", 4, 1 >>, << "plus", 4, 2 >>, << "rStickClick", 4, 4 >>,
    << "lStickClick", 4, 8 >>, << "home", 4, 16 >>, << "capture", 4, 32 >>,
    << "down", 5, 1 >>, << "up", 5, 2 >>, << "right", 5, 4 >>,
    << "left", 5, 8 >>, << "l", 5, 64 >>, << "zl", 5, 128 >> }

\* a full report was decoded and its frame delivered
FullDelivered ==
  /\ lastReport # NoReport
  /\ lastReport[1] = 48
  /\ delivered # NoFrame

\* C32: in the frame of a full (0x30) report each named button is true
\* exactly when its bit of the table is set in the report, and no two
\* buttons of the table share a bit.
C32_ButtonsFollowTable ==
  /\ \A e \in ButtonTable, f \in ButtonTable :
       e[1] # f[1] => << e[2], e[3] >> # << f[2], f[3] >>
  /\ FullDelivered
       => \A e \in ButtonTable :
            delivered.buttons[e[1]] <=> ((lastReport[e[2] + 1] \div e[3]) % 2 = 1)

\* a full report with ZR and L held: zr and l are decoded, zl and r are not
C32_ZrAndLOnly ==
  /\ FullDelivered
  /\ delivered.buttons.zr
  /\ delivered.buttons.l
  /\ ~delivered.buttons.zl
  /\ ~delivered.buttons.r

\* the three stick bytes of the connected controller in the last report:
\* offsets 6..8 on a Joy-Con L (0x2006), 9..11 on a Joy-Con R (0x2007)
StickBytesRead ==
  IF device = 8198
  THEN << lastReport[7], lastReport[8], lastReport[9] >>
  ELSE << lastReport[10], lastReport[11], lastReport[12] >>

\* ((X - 2048) / 2048, (Y - 2048) / 2048), Milli
Normalized(X, Y) ==
  [x |-> MulDiv(X - 2048, Milli, 2048), y |-> MulDiv(Y - 2048, Milli, 2048)]

\* C33 as stated: for every pair of 12-bit values (X, Y) packed into the
\* three stick bytes of the connected controller, the frame of a full
\* report carries stick = ((X - 2048) / 2048, (Y - 2048) / 2048), X = Y = 0
\* included.
C33_StickRoundTrips ==
  FullDelivered
    => \A X \in StickValues, Y \in StickValues :
         StickBytesRead = PackStick(X, Y) => delivered.stick = Normalized(X, Y)

\* the round trip for every pair other than (0, 0), and the centre for
\* three zero bytes
C33_RoundTripsUnlessZero ==
  FullDelivered
    => \A X \in StickValues, Y \in StickValues :
         StickBytesRead = PackStick(X, Y)
           => delivered.stick = IF X = 0 /\ Y = 0 THEN [x |-> 0, y |-> 0]
                                ELSE Normalized(X, Y)

\* C34: when a capture window completes, the peak exceeds
\* SWING_TRIGGER_THRESHOLD, so the power ratio exceeds 3/18 > 0.1 and the
\* ball is launched exactly when the swing started with the trigger held.
C34_FloorNeverRejects ==
  [][ Ran("timer")
        => /\ swingPeakPower > SWING_TRIGGER_THRESHOLD
           /\ PowerRatio(swingPeakPower)
                >= MulDiv(SWING_TRIGGER_THRESHOLD, Milli, MAX_POWER_GYRO)
           /\ MulDiv(SWING_TRIGGER_THRESHOLD, Milli, MAX_POWER_GYRO) > 100
           /\ \A t \in timers \ timers' :
                t.held => gameState' = "BallFlying" ]_vars

\* a swing armed with the trigger held whose second frame was still: the
\* peak is the magnitude of the arming frame, and the ball is in flight
C34_ArmingSampleCounted ==
  /\ lastEvent.op = "timer"
  /\ lastEvent.held
  /\ gameState = "BallFlying"
  /\ Len(swingData) = 2
  /\ swingData[2].power = 0
  /\ swingPeakPower = swingData[1].power
  /\ swingPeakPower > SWING_TRIGGER_THRESHOLD

\* the detector is at rest: not armed, no capture timer pending
DetectorAtRest == ~isSwinging /\ timers = {}

\* C35: in Swinging the detector is armed and the capture timer it holds is
\* pending with a true trigger flag; in Intro, BallFlying and Result the
\* detector is not armed and no capture timer is pending; a timer that
\* fires in Swinging launches the ball; and a session in Swinging always
\* reaches BallFlying.
C35_SessionMatchesDetector ==
  /\ [](gameState = "Swinging"
          => /\ isSwinging
             /\ \E t \in timers : t.id = swingTimer /\ t.held)
  /\ [](gameState \in {"Intro", "BallFlying", "Result"} => DetectorAtRest)
  /\ [][(Ran("timer") /\ gameState = "Swinging") => gameState' = "BallFlying"]_vars
  /\ [][gameState = "Swinging" => gameState' \in {"Swinging", "BallFlying"}]_vars
  /\ (gameState = "Swinging") ~> (gameState = "BallFlying")

\* the capture timer of a swing has fired in Swinging: the ball is in
\* flight and the detector is at rest
C35_SwingLaunched ==
  /\ lastEvent.op = "timer"
  /\ lastEvent.from = "Swinging"
  /\ gameState = "BallFlying"
  /\ DetectorAtRest

\* C36: isAddressMode is true exactly when the session is in Address or
\* Swinging, and false in Intro, Idle, BallFlying and Result.
C36_AddressFlagTracksState ==
  /\ gameState \in {"Intro", "Idle", "Address", "Swinging", "BallFlying", "Result"}
  /\ isAddressMode <=> gameState \in {"Address", "Swinging"}

\* the trigger was released inside the window of a real swing: the session
\* is still in Swinging and the flag is still set
C36_ReleasedInSwinging ==
  /\ lastEvent.op = "frame"
  /\ lastEvent.from = "Swinging"
  /\ ~lastEvent.held
  /\ gameState = "Swinging"
  /\ isAddressMode

\* C37: in Intro, Idle, Address and Swinging the ball is at the origin; the
\* ball position changes only by a physics tick in BallFlying and by the
\* reset; a physics tick in any other state changes neither the position nor
\* the velocity of the ball.
C37_BallOnTee ==
  /\ [](gameState \in {"Intro", "Idle", "Address", "Swinging"} => ballPos = Origin)
  /\ [][ ballPos' # ballPos
           => \/ Ran("tick") /\ gameState = "BallFlying"
              \/ gameState = "Result" /\ ResetRequested /\ ballPos' = Origin ]_vars
  /\ [][ (Ran("tick") /\ gameState # "BallFlying")
           => UNCHANGED << ballPos, ballVel >> ]_vars

\* an animation frame has run in Idle after a shot was played and reset
\* (its commentary is still on the way): the ball is on the tee, at rest
C37_TickOnTee ==
  /\ lastEvent.op = "tick"
  /\ lastEvent.from = "Idle"
  /\ gameState = "Idle"
  /\ replies > 0
  /\ ballPos = Origin
  /\ ballVel = Origin

\* C38 as stated: a commentary response that arrives after the session has
\* left the Result of its shot does not change the commentary field, so the
\* commentary is empty in Idle, Address, Swinging and BallFlying.
C38_NoStaleCommentary ==
  gameState \in {"Idle", "Address", "Swinging", "BallFlying"} => commentary = ""

\* the step has delivered the frame of a Simple Mode report to the game
SimpleDelivered ==
  /\ Ran("frame")
  /\ lastReport'[1] = 63
  /\ delivered' # NoFrame

\* C39: a frame decoded from a Simple Mode report never arms the swing
\* detector, never launches the ball and never moves the session into
\* Address or Swinging; in Address it moves the session to Idle, and in
\* Result with b or y set it resets the session to Idle.
C39_DegradedNeverShoots ==
  [][ SimpleDelivered
        => /\ isSwinging' = isSwinging
           /\ timers' = timers
           /\ gameState' # gameState
                => gameState' \notin {"Address", "Swinging", "BallFlying"}
           /\ gameState = "Address" => gameState' = "Idle" /\ ~isAddressMode'
           /\ (gameState = "Result"
                 /\ (delivered'.buttons.b \/ delivered'.buttons.y))
                => gameState' = "Idle" /\ ballPos' = Origin
           /\ gameState \in {"Idle", "Swinging", "BallFlying"}
                => gameState' = gameState ]_vars

\* a Simple Mode report with hat B, whose other bytes are those of a swing
\* with ZR held, was processed in Result: the session is in Idle, not armed
C39_SimpleResets ==
  /\ lastEvent.op = "frame"
  /\ lastEvent.from = "Result"
  /\ lastReport # NoReport
  /\ lastReport[1] = 63
  /\ lastReport[4] = 128
  /\ delivered.buttons.b
  /\ gameState = "Idle"
  /\ ~isSwinging

\* C40 as stated: at most one initialization handshake is in progress at
\* any time, so a handshake that has just begun (its frame, numbered 1 after
\* the reset of the counter, is the last one sent) is the only one.
C40_OneHandshakeAtATime ==
  /\ BagCardinality(handshakes) <= 1
  /\ BagIn(<< 72 >>, handshakes) => handshakes = SetToBag({ << 72 >> })

====
